---------------------------- MODULE Spec2Model ----------------------------
(***************************************************************************)
(* A model of the G-code document engine of                                *)
(* src/EE/servo-control-module/CAM/gcode_doc.py: shapes (Line, Rectangle,  *)
(* Circle), layouts (Layout, Layout2dOptimizer) and the Doc that owns the  *)
(* machine state and the output buffer.                                    *)
(*                                                                         *)
(* Units.  Lengths and coordinates are integers counting tenths of a       *)
(* millimetre (Rectangle(width=10) is width 100).  Speeds are whole        *)
(* mm/min, laser powers whole percent.  A Rectangle's rotation (radians in *)
(* the code) is a number of quarter turns, a Line's rotation is in degrees *)
(* and a multiple of 90, so that cos and sin are -1, 0 or 1.               *)
(*                                                                         *)
(* An optional Python value (None or a value) is the empty tuple or a      *)
(* one-element tuple.  A call that raises is an operator result with       *)
(* ok = FALSE that carries whatever the call had changed before raising.   *)
(***************************************************************************)
EXTENDS Integers, Sequences, FiniteSets, TLC

VARIABLES
    doc,        \* the Doc object's fields, its buffer `code` included
    layouts,    \* the Layout objects created so far; doc.layout indexes it
    shape,      \* a free-standing Shape under construction/mutation (Option)
    err,        \* TRUE iff the last call raised
    lastOp,     \* the last call made, with its argument
    emitted,    \* children indices in the order the last Doc.GCode emitted them
    file,       \* the content of the file Doc.Save writes (Option: no file yet)
    gerber      \* the objects of the Gerber file a Gerber2Gcode loaded (Option)

vars == <<doc, layouts, shape, err, lastOp, emitted, file, gerber>>

-----------------------------------------------------------------------------
(* Generic helpers *)

None == <<>>
Some(v) == <<v>>
IsNone(o) == o = <<>>
Val(o) == o[1]

Abs(n) == IF n < 0 THEN -n ELSE n

Pt(px, py) == <<px, py>>

\* f"{v:0.3f}" of a length v (tenths of a mm): sign, integer digits, 3 decimals.
Fmt3(v) == [neg |-> v < 0, whole |-> (Abs(v) * 100) \div 1000,
            frac |-> (Abs(v) * 100) % 1000]

\* f"{v:0.2f}" of a length v (tenths of a mm).
Fmt2(v) == [neg |-> v < 0, whole |-> (Abs(v) * 10) \div 100,
            frac |-> (Abs(v) * 10) % 100]

\* f"{v:0.1f}" of a speed v (whole mm/min).
Fmt1(v) == [neg |-> v < 0, whole |-> Abs(v), frac |-> 0]

\* One line of the buffer: what it is, its text part, its formatted numbers.
MkLine(op, txt, n) == [op |-> op, txt |-> txt, n |-> n]

BlankLine == MkLine("blank", "", <<>>)
CommentLine(text) == MkLine("comment", text, <<>>)

-----------------------------------------------------------------------------
(* numpy: cos and sin at quarter turns, rotation matrix, roll *)

CosQ(q) == CASE q % 4 = 0 -> 1 [] q % 4 = 1 -> 0 [] q % 4 = 2 -> -1 [] OTHER -> 0
SinQ(q) == CASE q % 4 = 0 -> 0 [] q % 4 = 1 -> 1 [] q % 4 = 2 -> 0 [] OTHER -> -1

\* pts @ R.T for R = [[cos,-sin],[sin,cos]], one point.
Rotate(p, q) == Pt(p[1] * CosQ(q) - p[2] * SinQ(q), p[1] * SinQ(q) + p[2] * CosQ(q))

\* np.roll(pts, -idx, axis=0), idx 0-based.
Roll(pts, idx) == [i \in 1..Len(pts) |-> pts[((i - 1 + idx) % Len(pts)) + 1]]

\* Squared Euclidean distance between two points.
Dist2(p, r) == (p[1] - r[1]) * (p[1] - r[1]) + (p[2] - r[2]) * (p[2] - r[2])

\* np.argmin over np.linalg.norm(pts - xy, axis=1): the first index (0-based)
\* of a point at least distance.
ArgMinPts(pts, xy) ==
    (CHOOSE i \in 1..Len(pts) :
        /\ \A j \in 1..Len(pts) : Dist2(pts[i], xy) <= Dist2(pts[j], xy)
        /\ \A j \in 1..(i - 1) : Dist2(pts[j], xy) > Dist2(pts[i], xy)) - 1

-----------------------------------------------------------------------------
(* Shape and its variants: construction and setters *)

Ok(o) == [ok |-> TRUE, obj |-> o]
Raise(o) == [ok |-> FALSE, obj |-> o]

\* The value v under the name F gives it: the next statements of a method,
\* run on the value the statement before them produced.
Bind(v, F(_)) == F(v)

\* The statements F that follow a call r inside one method: they run on the
\* object the call returned, and not at all if the call raised.
Then(r, F(_)) == IF r.ok THEN F(r.obj) ELSE r

\* A Python value given for is_filled: the two booleans, or something else.
IsBool(v) == v \in {"True", "False"}
BoolOf(v) == v = "True"

\* The object before __init__ has run.  Every variant carries every field;
\* a field its class does not have stays at this value and is never read.
NewObject(kind) ==
    [kind |-> kind, x |-> 0, y |-> 0, z |-> 0,
     speed_print |-> None, laser_power |-> None,
     header |-> None, footer |-> None,
     is_closed |-> FALSE, is_filled |-> FALSE,
     length |-> 0, rotation |-> 0, width |-> 0, height |-> 0, radius |-> 0,
     points |-> None, start |-> Pt(0, 0), start_nan |-> FALSE]

\* Rectangle._points_gen: lower left, upper left, upper right, lower right
\* about the origin, rotated, then offset by the centre.
Rectangle_points_gen(s) ==
    LET w == s.width \div 2
        h == s.height \div 2
        Place(p) == Pt(p[1] + s.x, p[2] + s.y)
    IN  [s EXCEPT !.points =
            Some([i \in 1..4 |->
                    Place(Rotate(<<Pt(-w, -h), Pt(-w, h), Pt(w, h), Pt(w, -h)>>[i],
                                 s.rotation))])]

\* The nearest integer to r * a / sqrt(d2), for a >= 0 and d2 > 0.
RoundScaled(r, a, d2) ==
    CHOOSE q \in 0..r :
        /\ q = 0 \/ (2 * q - 1) * (2 * q - 1) * d2 <= 4 * r * r * a * a
        /\ 4 * r * r * a * a < (2 * q + 1) * (2 * q + 1) * d2

Sgn(n) == IF n < 0 THEN -1 ELSE IF n > 0 THEN 1 ELSE 0

\* Circle.startpoint_set(xy), xy an Option.  theta = 0 for None, else
\* arctan(dy/dx) with delta = xy - centre; start = centre - r*(cos, sin) of
\* theta.  arctan ranges over [-pi/2, pi/2], so cos(theta) >= 0 and
\* (cos, sin) = sgn(dx) * delta / |delta| for dx # 0; dx = 0 divides by zero:
\* +-inf (theta = +-pi/2) for dy # 0 and nan for dy = 0.  Coordinates are
\* rounded to the model's unit.
Circle_startpoint_set(s, xy) ==
    IF IsNone(xy)
    THEN [s EXCEPT !.start = Pt(s.x - s.radius, s.y), !.start_nan = FALSE]
    ELSE LET dx == Val(xy)[1] - s.x
             dy == Val(xy)[2] - s.y
             d2 == dx * dx + dy * dy
         IN  IF dx = 0 /\ dy = 0
             THEN [s EXCEPT !.start_nan = TRUE]
             ELSE IF dx = 0
             THEN [s EXCEPT !.start = Pt(s.x, s.y - Sgn(dy) * s.radius),
                            !.start_nan = FALSE]
             ELSE [s EXCEPT
                     !.start = Pt(s.x - RoundScaled(s.radius, Abs(dx), d2),
                                  s.y - Sgn(dx) * Sgn(dy)
                                         * RoundScaled(s.radius, Abs(dy), d2)),
                     !.start_nan = FALSE]

\* The x setter: Shape.x, overridden by Rectangle.x and Circle.x.
Shape_x_set(s, v) ==
    CASE s.kind = "Rectangle" ->
            IF IsNone(s.points) THEN [s EXCEPT !.x = v]
            ELSE Rectangle_points_gen([s EXCEPT !.x = v])
      [] s.kind = "Circle" -> Circle_startpoint_set([s EXCEPT !.x = v], None)
      [] OTHER -> [s EXCEPT !.x = v]

\* The y setter: Shape.y, overridden by Rectangle.y and Circle.y.
Shape_y_set(s, v) ==
    CASE s.kind = "Rectangle" ->
            IF IsNone(s.points) THEN [s EXCEPT !.y = v]
            ELSE Rectangle_points_gen([s EXCEPT !.y = v])
      [] s.kind = "Circle" -> Circle_startpoint_set([s EXCEPT !.y = v], None)
      [] OTHER -> [s EXCEPT !.y = v]

\* Shape.z setter; z is an Option here, None raising.
Shape_z_set(s, v) ==
    IF IsNone(v) THEN Raise(s) ELSE Ok([s EXCEPT !.z = Val(v)])

\* Shape.speed_print setter.
Shape_speed_print_set(s, v) ==
    IF v <= 0 THEN Raise(s) ELSE Ok([s EXCEPT !.speed_print = Some(v)])

\* Shape.laser_power setter.
Shape_laser_power_set(s, v) ==
    IF v < 0 \/ v > 100 THEN Raise(s) ELSE Ok([s EXCEPT !.laser_power = Some(v)])

\* A setter that lets is_filled be cleared.
Shape_is_filled_set_clearing(s, v) ==
    IF ~IsBool(v) THEN Raise(s) ELSE Ok([s EXCEPT !.is_filled = BoolOf(v)])

\* Shape.is_filled setter.
Shape_is_filled_set(s, v) ==
    IF ~IsBool(v) THEN Raise(s)
    ELSE IF s.is_filled /\ ~BoolOf(v) THEN Raise(s)
    ELSE Ok([s EXCEPT !.is_filled = BoolOf(v)])

\* Shape.header and Shape.footer setters.
Shape_header_set(s, v) == [s EXCEPT !.header = v]
Shape_footer_set(s, v) == [s EXCEPT !.footer = v]

\* Shape.__init__(x, y, z, speed_print, laser_power): x, y, z go through the
\* setters of the object's class; the two overrides are stored as given.
Shape_init(s, x, y, z, speed_print, laser_power) ==
    Ok([Shape_z_set(Shape_y_set(Shape_x_set(s, x), y), Some(z)).obj
            EXCEPT !.header = None, !.footer = None,
                   !.speed_print = speed_print,
                   !.laser_power = laser_power,
                   !.is_closed = FALSE, !.is_filled = FALSE])

\* Line.length setter.
Line_length_set(s, v) ==
    IF v <= 0 THEN Raise(s) ELSE Ok([s EXCEPT !.length = v])

\* Line.rotation setter (degrees).
Line_rotation_set(s, v) == [s EXCEPT !.rotation = v]

\* Line.__init__: z is not handed to Shape.__init__, which takes its default.
Line_init(x, y, z, length, rotation, speed_print, laser_power) ==
    Then(Shape_init(NewObject("Line"), x, y, 0, speed_print, laser_power),
         LAMBDA s0 :
    Then(Line_length_set(s0, length),
         LAMBDA s1 : Ok(Line_rotation_set(s1, rotation))))

\* Rectangle.width setter.
Rectangle_width_set(s, v) ==
    IF v <= 0 THEN Raise(s)
    ELSE Ok(IF IsNone(s.points) THEN [s EXCEPT !.width = v]
            ELSE Rectangle_points_gen([s EXCEPT !.width = v]))

\* Rectangle.height setter.
Rectangle_height_set(s, v) ==
    IF v <= 0 THEN Raise(s)
    ELSE Ok(IF IsNone(s.points) THEN [s EXCEPT !.height = v]
            ELSE Rectangle_points_gen([s EXCEPT !.height = v]))

\* Rectangle.rotation setter (quarter turns): the cached points are kept.
Rectangle_rotation_set(s, v) == [s EXCEPT !.rotation = v]

\* Rectangle.__init__.
Rectangle_init(x, y, z, width, height, rotation, speed_print, laser_power, is_filled) ==
    Then(Shape_init(NewObject("Rectangle"), x, y, z, speed_print, laser_power),
         LAMBDA s0 :
    Then(Rectangle_height_set(s0, height),
         LAMBDA s1 :
    Then(Rectangle_width_set(s1, width),
         LAMBDA s2 :
    Shape_is_filled_set(
        [Rectangle_rotation_set(s2, rotation) EXCEPT !.is_closed = TRUE],
        is_filled))))

\* Circle.radius setter.
Circle_radius_set(s, v) ==
    IF v <= 0 THEN Raise(s)
    ELSE Ok(Circle_startpoint_set([s EXCEPT !.radius = v], None))

\* Circle.__init__.
Circle_init(x, y, z, radius, speed_print, laser_power, is_filled) ==
    Then(Shape_init(NewObject("Circle"), x, y, z, speed_print, laser_power),
         LAMBDA s0 :
    Then(Circle_radius_set(s0, radius),
         LAMBDA s1 :
    Then(Shape_is_filled_set([s1 EXCEPT !.is_closed = TRUE], is_filled),
         LAMBDA s2 : Ok(Circle_startpoint_set(s2, None)))))

\* Polygon.__init__(points, ...): the points are stored as given, the centre
\* is the midpoint of their ranges, and the shape is closed.  Without points
\* (the default) taking their ranges raises TypeError.
Polygon_init(points, speed_print, z, laser_power, is_filled) ==
    IF IsNone(points) THEN Raise(NewObject("Polygon"))
    ELSE LET xs == {Val(points)[i][1] : i \in 1..Len(Val(points))}
             ys == {Val(points)[i][2] : i \in 1..Len(Val(points))}
             Max(S) == CHOOSE m \in S : \A n \in S : m >= n
             Min(S) == CHOOSE m \in S : \A n \in S : m <= n
         IN  Then(Shape_init([NewObject("Polygon") EXCEPT !.points = points],
                             (Min(xs) + Max(xs)) \div 2, (Min(ys) + Max(ys)) \div 2,
                             z, speed_print, laser_power),
                  LAMBDA s0 :
                     Shape_is_filled_set([s0 EXCEPT !.is_closed = TRUE], is_filled))

\* A value handed over as a point array: a numpy array with its shape and
\* its rows, or (is_ndarray FALSE) a Python list.
NdArray(is_ndarray, dims, rows) ==
    [is_ndarray |-> is_ndarray, shape |-> dims, rows |-> rows]

\* PolyLine.x: the class redefines x as a property without a setter, so an
\* assignment to it raises AttributeError.
PolyLine_x_set(s, v) == Raise(s)

\* PolyLine.points setter: the value must be a numpy array (ValueError),
\* have a second dimension (shape[1], IndexError) of 2 columns (ValueError).
PolyLine_points_set(s, a) ==
    IF ~a.is_ndarray THEN Raise(s)
    ELSE IF Len(a.shape) < 2 THEN Raise(s)
    ELSE IF a.shape[2] # 2 THEN Raise(s)
    ELSE Ok([s EXCEPT !.points = Some(a.rows)])

\* PolyLine.__init__(z, points): Shape.__init__(z=z, ...) assigns x, y and z
\* and sets the defaults, then the points are assigned if given.
PolyLine_init(z, points, speed_print, laser_power) ==
    Then(PolyLine_x_set(NewObject("PolyLine"), 0),
         LAMBDA s0 :
    Then(Ok([Shape_z_set(Shape_y_set(s0, 0), Some(z)).obj
                EXCEPT !.header = None, !.footer = None,
                       !.speed_print = speed_print,
                       !.laser_power = laser_power,
                       !.is_closed = FALSE, !.is_filled = FALSE]),
         LAMBDA s1 :
    IF IsNone(points) THEN Ok(s1) ELSE PolyLine_points_set(s1, Val(points))))

\* PolyLine.append(xy): the same checks as the points setter, then
\* np.vstack([self._points, xy]); without points assigned before, the
\* attribute is missing (AttributeError).
PolyLine_append(s, xy) ==
    IF ~xy.is_ndarray THEN Raise(s)
    ELSE IF Len(xy.shape) < 2 THEN Raise(s)
    ELSE IF xy.shape[2] # 2 THEN Raise(s)
    ELSE IF IsNone(s.points) THEN Raise(s)
    ELSE Ok([s EXCEPT !.points = Some(Val(@) \o xy.rows)])

-----------------------------------------------------------------------------
(* Shape geometry: points, Size, distance, startpoint_set, __str__ *)

\* Line.points: the start point and the point `length` away at `rotation`.
Line_points(s) ==
    <<Pt(s.x, s.y),
      Pt(s.x + s.length * CosQ(s.rotation \div 90),
         s.y + s.length * SinQ(s.rotation \div 90))>>

\* The points property.  Reading it on a Rectangle fills the cache, so the
\* result carries the object as the read leaves it.
Points(s) ==
    CASE s.kind = "Line" -> [obj |-> s, pts |-> Line_points(s)]
      [] s.kind = "Rectangle" ->
            LET t == IF IsNone(s.points) THEN Rectangle_points_gen(s) ELSE s
            IN  [obj |-> t, pts |-> Val(t.points)]
      [] s.kind = "Polygon" -> [obj |-> s, pts |-> Val(s.points)]
      [] OTHER -> [obj |-> s, pts |-> <<s.start>>]

\* Rectangle.Size.
Rectangle_Size(s) == <<s.width, s.height>>

\* Bounding box (width, height) of a point list.
BBox(pts) ==
    LET xs == {pts[i][1] : i \in 1..Len(pts)}
        ys == {pts[i][2] : i \in 1..Len(pts)}
        Max(S) == CHOOSE m \in S : \A n \in S : n <= m
        Min(S) == CHOOSE m \in S : \A n \in S : m <= n
    IN  <<Max(xs) - Min(xs), Max(ys) - Min(ys)>>

\* distance(xy) as the pair (d2, r) standing for sqrt(d2) - r: Line and
\* Rectangle take the least distance to one of their points, Circle the
\* distance to the centre less the radius.
Distance(s, xy) ==
    IF s.kind = "Circle"
    THEN [d2 |-> Dist2(Pt(s.x, s.y), xy), r |-> s.radius]
    ELSE LET pts == Points(s).pts
         IN  [d2 |-> Dist2(pts[ArgMinPts(pts, xy) + 1], xy), r |-> 0]

\* sqrt(a) <= sqrt(b) + e and sqrt(a) < sqrt(b) + e for e >= 0, in integers.
SqrtLeq(a, b, e) ==
    IF e = 0 THEN a <= b
    ELSE \/ a - b - e * e <= 0
         \/ (a - b - e * e) * (a - b - e * e) <= 4 * e * e * b

SqrtLt(a, b, e) ==
    IF e = 0 THEN a < b
    ELSE \/ a - b - e * e < 0
         \/ (a - b - e * e) * (a - b - e * e) < 4 * e * e * b

\* p <= q for two distances given as pairs (d2, r).
DistLeq(p, q) ==
    IF p.r >= q.r THEN SqrtLeq(p.d2, q.d2, p.r - q.r)
    ELSE ~SqrtLt(q.d2, p.d2, q.r - p.r)

\* Line.startpoint_set: swap the direction when the far end is nearer.
Line_startpoint_set(s, xy) ==
    LET pts == Line_points(s)
    IN  IF ArgMinPts(pts, xy) = 0 THEN s
        ELSE [s EXCEPT !.x = pts[2][1], !.y = pts[2][2],
                       !.rotation = s.rotation + 180]

\* A startpoint_set that rolls the point list one place too far.
Rectangle_startpoint_set_overroll(s, xy) ==
    LET r == Points(s)
    IN  [r.obj EXCEPT !.points = Some(Roll(r.pts, ArgMinPts(r.pts, xy) + 1))]

\* Rectangle.startpoint_set: roll the point list so the nearest comes first.
Rectangle_startpoint_set(s, xy) ==
    LET r == Points(s)
    IN  [r.obj EXCEPT !.points = Some(Roll(r.pts, ArgMinPts(r.pts, xy)))]

\* startpoint_set of the object's class; Polygon has none of its own and
\* inherits Shape.startpoint_set, which does nothing.
StartpointSet(s, xy) ==
    CASE s.kind = "Line" -> Line_startpoint_set(s, xy)
      [] s.kind = "Rectangle" -> Rectangle_startpoint_set(s, xy)
      [] s.kind = "Polygon" -> s
      [] OTHER -> Circle_startpoint_set(s, Some(xy))

\* f"{v:0.3f}" of a whole number (a Line's rotation in degrees).
FmtWhole(v) == [neg |-> v < 0, whole |-> Abs(v), frac |-> 0]

\* The text "nan" where a number is printed.
FmtNan == [neg |-> FALSE, whole |-> -1, frac |-> -1]

\* The shape-identifying comment: "(" + str(self).replace("(", ": ").
ShapeIdLine(s) ==
    CASE s.kind = "Line" ->
            MkLine("shapeid", "Line",
                   <<Fmt3(s.x), Fmt3(s.y), Fmt3(s.length), FmtWhole(s.rotation)>>)
      [] s.kind = "Rectangle" ->
            MkLine("shapeid", "Rectangle",
                   <<Fmt2(s.x), Fmt2(s.y), Fmt2(s.width), Fmt2(s.height)>>)
      [] s.kind = "Polygon" ->
            MkLine("shapeid", "Polygon", <<FmtWhole(Len(Val(s.points)))>>)
      [] OTHER ->
            MkLine("shapeid", "Circle",
                   <<Fmt3(s.x), Fmt3(s.y), Fmt3(s.radius)>>
                   \o (IF s.start_nan THEN <<FmtNan, FmtNan>>
                       ELSE <<Fmt3(s.start[1]), Fmt3(s.start[2])>>))

\* Circle.gcode: G2 to the start point, I and J the offset to the centre.
Circle_gcode(s) ==
    IF s.start_nan
    THEN MkLine("G2", "", <<FmtNan, FmtNan, FmtNan, FmtNan>>)
    ELSE MkLine("G2", "", <<Fmt3(s.start[1]), Fmt3(s.start[2]),
                            Fmt3(s.x - s.start[1]), Fmt3(s.y - s.start[2])>>)

-----------------------------------------------------------------------------
(* Layout and Doc objects *)

\* A text is the sequence of its lines (its pieces between end-of-line
\* characters); the empty string is the empty sequence.

\* Layout.__init__, for Layout and its subclasses that add no fields.
Layout_init(kind) ==
    [kind |-> kind, x |-> None, y |-> None, z |-> None,
     parent |-> None, children |-> <<>>]

\* Layout.Size of the object in a cell: a Shape's Size().
ChildSize(o) == Rectangle_Size(o)

\* CellLayout.__init__: Layout.__init__, then NotImplementedError.
CellLayout_init ==
    Raise([kind |-> "CellLayout", parent |-> None, children |-> None,
           x |-> None, y |-> None, z |-> None,
           padding_width |-> 0, padding_height |-> 0])

\* CellLayout.AddChild: the cell holds the one child.
CellLayout_AddChild(cell, child) == [cell EXCEPT !.children = Some(child)]

\* CellLayout.Size: the child's size and the padding on both sides.
CellLayout_Size(cell) ==
    IF IsNone(cell.children)
    THEN <<2 * cell.padding_width, 2 * cell.padding_height>>
    ELSE <<2 * cell.padding_width + ChildSize(Val(cell.children))[1],
           2 * cell.padding_height + ChildSize(Val(cell.children))[2]>>

\* GridLayout.__init__(rows, columns): the checks, the empty grid (a cell
\* holding nothing is None here, the integer 0 in the code), then
\* NotImplementedError.
GridLayout_init(rows, columns) ==
    IF rows < 1 \/ columns < 1
    THEN Raise([kind |-> "GridLayout", rows |-> 0, cols |-> 0, grid |-> <<>>])
    ELSE Raise([kind |-> "GridLayout", parent |-> None, children |-> <<>>,
                x |-> None, y |-> None, z |-> None,
                padding_width |-> 0, padding_height |-> 0,
                cell_padding_width |-> 0, cell_padding_height |-> 0,
                rows |-> rows, cols |-> columns,
                grid |-> [i \in 1..rows |-> [j \in 1..columns |-> None]]])

\* GridLayout.AddChild(child, row, column), row and column counted from 0.
GridLayout_AddChild(g, child, row, column) ==
    IF row < 0 \/ column < 0 THEN Raise(g)
    ELSE Ok([g EXCEPT !.grid[row + 1][column + 1] = Some(child)])

\* GridLayout.AddChildCell(child, row, column): a new cell with the grid's
\* cell padding takes the child and goes into the grid.
GridLayout_AddChildCell(g, child, row, column) ==
    IF CellLayout_init.ok
    THEN GridLayout_AddChild(
             g,
             CellLayout_AddChild(
                 [CellLayout_init.obj EXCEPT
                     !.padding_width = g.cell_padding_width,
                     !.padding_height = g.cell_padding_height],
                 child),
             row, column)
    ELSE Raise(g)

\* The sum of a sequence of numbers.
RECURSIVE SumSeq(_)
SumSeq(s) == IF Len(s) = 0 THEN 0 ELSE Head(s) + SumSeq(Tail(s))

\* GridLayout.Size: the widest cell of each column summed over the columns,
\* the highest cell of each row summed over the rows, and the grid's padding.
GridLayout_Size(g) ==
    LET size(i, j) == IF IsNone(g.grid[i][j]) THEN <<0, 0>>
                      ELSE CellLayout_Size(Val(g.grid[i][j]))
        Most(S) == CHOOSE m \in S : \A n \in S : n <= m
    IN  <<SumSeq([j \in 1..g.cols |-> Most({size(i, j)[1] : i \in 1..g.rows})])
            + g.padding_width,
          SumSeq([i \in 1..g.rows |-> Most({size(i, j)[2] : j \in 1..g.cols})])
            + g.padding_height>>

\* The Doc class attributes, before __init__.
DocClass ==
    [x |-> 0, y |-> 0, z |-> 0,
     laser_on |-> "M4", laser_off |-> "M5",
     laser_power |-> 0, laser_power_default |-> 80,
     device_laser_max |-> 1000,
     z_retract_enabled |-> FALSE, z_retract_height |-> None,
     speed_position |-> 3000, speed_print |-> 500,
     code |-> <<>>, header |-> <<>>, footer |-> <<>>,
     layout |-> 0, job_control |-> TRUE, fill_stepover |-> 0]

\* Doc.speed_position setter.
Doc_speed_position_set(d, v) ==
    IF v <= 0 THEN Raise(d) ELSE Ok([d EXCEPT !.speed_position = v])

\* Doc.speed_print setter.
Doc_speed_print_set(d, v) ==
    IF v <= 0 THEN Raise(d) ELSE Ok([d EXCEPT !.speed_print = v])

\* value.upper().strip() on the strings handed to the laser_on setter.
UpperStrip(v) ==
    CASE v = "m3" -> "M3"
      [] v = " M4 " -> "M4"
      [] v = "m5" -> "M5"
      [] OTHER -> v

\* Doc.laser_on setter.
Doc_laser_on_set(d, v) ==
    IF UpperStrip(v) \notin {"M3", "M4"} THEN Raise(d)
    ELSE Ok([d EXCEPT !.laser_on = UpperStrip(v)])

\* A laser_power setter that checks nothing.
Doc_laser_power_set_unchecked(d, v) == Ok([d EXCEPT !.laser_power = v])

\* Doc.laser_power setter.
Doc_laser_power_set(d, v) ==
    IF v < 0 \/ v > 100 THEN Raise(d) ELSE Ok([d EXCEPT !.laser_power = v])

\* Doc.laser_power_default setter.
Doc_laser_power_default_set(d, v) ==
    IF v < 0 \/ v > 100 THEN Raise(d) ELSE Ok([d EXCEPT !.laser_power_default = v])

\* Doc.device_laser_max setter (device units).
Doc_device_laser_max_set(d, v) ==
    IF v < 0 THEN Raise(d) ELSE Ok([d EXCEPT !.device_laser_max = v])

\* Doc.fill_stepover setter.
Doc_fill_stepover_set(d, v) ==
    IF v <= 0 THEN Raise(d) ELSE Ok([d EXCEPT !.fill_stepover = v])

\* Doc.z_retract_enabled and Doc.z_retract_height setters.
Doc_z_retract_enabled_set(d, v) == [d EXCEPT !.z_retract_enabled = v]
Doc_z_retract_height_set(d, v) == [d EXCEPT !.z_retract_height = v]

\* Doc.header and Doc.footer setters.
Doc_header_set(d, v) == [d EXCEPT !.header = v]
Doc_footer_set(d, v) == [d EXCEPT !.footer = v]

\* Doc.laser_on getter: the on-code, S with the power scaled to device
\* units, and the percentage as a comment.
Doc_laser_on(d) ==
    MkLine("laser_on", d.laser_on,
           <<[neg |-> FALSE,
              whole |-> (d.laser_power * d.device_laser_max) \div 100,
              frac |-> (d.laser_power * d.device_laser_max) % 100],
             [neg |-> FALSE,
              whole |-> IF d.laser_power < 100 THEN d.laser_power ELSE 100,
              frac |-> 0]>>)

\* Doc.laser_off getter.
Doc_laser_off(d) == MkLine("laser_off", d.laser_off, <<>>)

\* Doc.AddLine.
Doc_AddLine(d, line) == [d EXCEPT !.code = Append(d.code, line)]

\* "(" + text + ")" + EOL appended to the buffer: one parenthesized line for
\* a one-line text; a text of several lines opens on its first line and
\* closes on its last.
ParenLines(text) ==
    IF Len(text) <= 1
    THEN <<CommentLine(IF Len(text) = 0 THEN "" ELSE text[1])>>
    ELSE [i \in 1..Len(text) |->
            MkLine(IF i = 1 THEN "open" ELSE IF i = Len(text) THEN "close" ELSE "bare",
                   text[i], <<>>)]

\* The same after header.replace(EOL, ")" + EOL + "("): a parenthesized
\* line per line of the text.
ParenEachLine(text) == [i \in 1..Len(text) |-> CommentLine(text[i])]

-----------------------------------------------------------------------------
(* Adding children, fill synthesis, the layout setter *)

\* np.round(a / b) for b > 0: to the nearest integer, halves to the even one.
RoundHalfEven(a, b) ==
    LET fl == IF a >= 0 THEN a \div b ELSE -((-a + b - 1) \div b)
        twice == 2 * (a - fl * b)
    IN  IF twice < b THEN fl
        ELSE IF twice > b THEN fl + 1
        ELSE IF fl % 2 = 0 THEN fl ELSE fl + 1

\* The nearest integer to sqrt(n), n >= 0.
RoundSqrt(n) ==
    CHOOSE q \in 0..(n + 1) :
        /\ q = 0 \/ (2 * q - 1) * (2 * q - 1) <= 4 * n
        /\ 4 * n < (2 * q + 1) * (2 * q + 1)

\* A Rectangle.fill that draws one line more.
Rectangle_fill_lines_extra(s, stepover) ==
    [i \in 1..(RoundHalfEven(s.height - stepover, stepover) + 1) |->
        Then(Line_init(0, 0, s.z, s.width - 2 * stepover, s.rotation * 90,
                       None, None),
             LAMBDA l : Ok(Shape_header_set(l, Some(<<"Rectangle Fill">>))))]

\* The Line objects Rectangle.fill builds, in order, as constructor results:
\* n_lines lines of length width - 2*stepover, the first one stepover inside
\* the rectangle's first point, each next one stepover further.
Rectangle_fill_lines(s, stepover) ==
    LET n_lines == RoundHalfEven(s.height - stepover, stepover)
        length == s.width - 2 * stepover
        p0 == Points(s).pts[1]
        one == Rotate(Pt(1, 1), s.rotation)
        d_start == Rotate(Pt(0, stepover), s.rotation)
        line(i) == Line_init(p0[1] + stepover * one[1] + (i - 1) * d_start[1],
                             p0[2] + stepover * one[2] + (i - 1) * d_start[2],
                             s.z, length, s.rotation * 90, None, None)
    IN  [i \in 1..(IF n_lines > 0 THEN n_lines ELSE 0) |->
            Then(line(i),
                 LAMBDA l : Ok(Shape_header_set(l, Some(<<"Rectangle Fill">>))))]

\* The Line objects Circle.fill builds, in order: the diameter, then for
\* i = 1..n_lines the chord i*stepover above the centre and its mirror
\* image below; sin(theta_i) = i*stepover/radius, so the chord's half width
\* is sqrt(radius^2 - (i*stepover)^2), rounded to the model's unit.
Circle_fill_lines(s, stepover) ==
    LET n_lines == RoundHalfEven(s.radius - stepover, stepover)
        n == IF n_lines > 0 THEN n_lines ELSE 0
        hdr(r) == Then(r, LAMBDA l : Ok(Shape_header_set(l, Some(<<"Circle Fill">>))))
        x_per(i) == RoundSqrt(s.radius * s.radius - i * stepover * i * stepover)
        chord(i, sign) ==
            Line_init(s.x - x_per(i) + stepover, s.y + sign * i * stepover, s.z,
                      2 * (x_per(i) - stepover), 0, None, None)
    IN  <<hdr(Line_init(s.x - s.radius + stepover, s.y, s.z,
                        2 * (s.radius - stepover), 0, None, None))>>
        \o [k \in 1..(2 * n) |->
              hdr(chord((k + 1) \div 2, IF k % 2 = 1 THEN 1 ELSE -1))]

\* The children appended while `lines` are added one by one through
\* Doc.AddChild, up to the first Line whose constructor raises.
RECURSIVE AddFillLines(_, _, _)
AddFillLines(children, lines, i) ==
    IF i > Len(lines) THEN Ok(children)
    ELSE IF ~lines[i].ok THEN Raise(children)
    ELSE AddFillLines(Append(children, lines[i].obj), lines, i + 1)

\* Layout.AddChild on layout li: append the child; a filled child then
\* fills itself into the layout's parent, whose Doc.AddChild appends the
\* fill lines to the document's own layout.  The result is the layouts.
Layout_AddChild(ls, d, li, child) ==
    LET ls1 == [ls EXCEPT ![li].children = Append(@, child)]
    IN  IF ~child.is_filled THEN Ok(ls1)
        ELSE IF child.kind = "Line" \/ IsNone(ls1[li].parent) THEN Raise(ls1)
        ELSE Bind(AddFillLines(ls1[d.layout].children,
                               IF child.kind = "Rectangle"
                               THEN Rectangle_fill_lines(child, d.fill_stepover)
                               ELSE Circle_fill_lines(child, d.fill_stepover),
                               1),
                  LAMBDA r : [ok |-> r.ok,
                              obj |-> [ls1 EXCEPT ![d.layout].children = r.obj]])

\* Doc.AddChild: the document always holds a layout and the child is a
\* Shape, so the call goes to the layout.
Doc_AddChild(ls, d, child) == Layout_AddChild(ls, d, d.layout, child)

\* A layout setter that leaves the new layout's parent alone.
Doc_layout_set_noparent(ls, d, value) ==
    IF IsNone(value) THEN [ok |-> FALSE, doc |-> d, layouts |-> ls]
    ELSE [ok |-> TRUE, doc |-> [d EXCEPT !.layout = Val(value)], layouts |-> ls]

\* Doc.layout setter.  The value is a Layout object, given by its index in
\* the layouts, or (None) something that is not a Layout: that raises; a
\* Layout is attached and the document made its parent.
Doc_layout_set(ls, d, value) ==
    IF IsNone(value) THEN [ok |-> FALSE, doc |-> d, layouts |-> ls]
    ELSE [ok |-> TRUE,
          doc |-> [d EXCEPT !.layout = Val(value)],
          layouts |-> [ls EXCEPT ![Val(value)].parent = Some("doc")]]

\* Doc.__init__(job_control), with the layouts it leaves behind.
Doc_init(job_control) ==
    Bind(Doc_layout_set(<<Layout_init("Layout")>>,
                        [DocClass EXCEPT !.laser_power = DocClass.laser_power_default],
                        Some(1)),
         LAMBDA r :
            [doc |-> [r.doc EXCEPT !.fill_stepover = 1, !.job_control = job_control],
             layouts |-> r.layouts])

-----------------------------------------------------------------------------
(* G-code generation *)

\* The X and Y words of a point; a Circle whose start point is nan prints nan.
FmtXY(s, p) ==
    IF s.kind = "Circle" /\ s.start_nan THEN <<FmtNan, FmtNan>>
    ELSE <<Fmt3(p[1]), Fmt3(p[2])>>

\* Cutting moves that never return to the first point.
CuttingMoves_unclosed(s, pts) ==
    [i \in 1..(Len(pts) - 1) |-> MkLine("G1", "", FmtXY(s, pts[i + 1]))]

\* The cutting moves of a shape with more than one point: points 2..n, then
\* the first point again when the shape is closed.
CuttingMoves(s, pts) ==
    [i \in 1..(Len(pts) - 1) |-> MkLine("G1", "", FmtXY(s, pts[i + 1]))]
    \o (IF s.is_closed THEN <<MkLine("G1", "", FmtXY(s, pts[1]))>> ELSE <<>>)

\* A GCode whose travel move comes after the laser is switched on.
Shape_GCode_late_travel(d, s) ==
    Bind(Points(s), LAMBDA r :
    Bind(Doc_AddLine(d, ShapeIdLine(s)), LAMBDA d1 :
    Bind(Doc_AddLine(d1, Doc_laser_on(d1)), LAMBDA d2 :
    Bind(Doc_AddLine(d2, MkLine("G0", "", FmtXY(s, r.pts[1])
                                  \o <<Fmt1(d.speed_position)>>)), LAMBDA d3 :
    [ok |-> TRUE,
     doc |-> Doc_AddLine(Doc_AddLine(d3, Doc_laser_off(d3)), BlankLine),
     obj |-> r.obj]))))

\* Shape.GCode(doc): the lines of one shape, appended to the document's
\* buffer, statement by statement.  It raises, with the lines before that
\* point appended, when Z-retraction is enabled with no height set (the
\* height cannot be formatted) and when the shape's laser power is refused by
\* the document's laser_power setter.  The result carries the document and
\* the shape (whose points may have been cached by the read).
Shape_GCode(d, s) ==
    Bind(Doc_AddLine(d, ShapeIdLine(s)), LAMBDA d1 :
    Bind(IF IsNone(s.header) THEN d1
         ELSE [d1 EXCEPT !.code = @ \o ParenLines(Val(s.header))], LAMBDA d2 :
    IF d.z_retract_enabled /\ IsNone(d.z_retract_height)
    THEN [ok |-> FALSE, doc |-> d2, obj |-> s]
    ELSE
    Bind(IF d.z_retract_enabled
         THEN Doc_AddLine(d2, MkLine("G0", "Z",
                                     <<Fmt3(Val(d.z_retract_height)),
                                       Fmt1(d.speed_position)>>))
         ELSE d2, LAMBDA d3 :
    Bind(Points(s), LAMBDA r :
    Bind(Doc_AddLine(d3, MkLine("G0", "", FmtXY(s, r.pts[1])
                                  \o <<Fmt1(d.speed_position)>>)), LAMBDA d4 :
    Bind(Doc_AddLine(d4, MkLine("G0", "Z", <<Fmt3(s.z)>>)), LAMBDA d5 :
    Bind(Doc_AddLine(d5, MkLine("G1", "F",
            <<Fmt1(IF IsNone(s.speed_print) THEN d.speed_print
                   ELSE Val(s.speed_print))>>)), LAMBDA d6 :
    Bind(IF IsNone(s.laser_power) THEN Ok(d6)
         ELSE Doc_laser_power_set(d6, Val(s.laser_power)), LAMBDA pw :
    IF ~pw.ok
    THEN [ok |-> FALSE, doc |-> d6, obj |-> r.obj]
    ELSE
    Bind(Doc_AddLine(pw.obj, Doc_laser_on(pw.obj)), LAMBDA d7 :
    Bind(IF Len(r.pts) > 1
         THEN [d7 EXCEPT !.code = @ \o CuttingMoves(s, r.pts)]
         ELSE Doc_AddLine(d7, Circle_gcode(s)), LAMBDA d8 :
    Bind(Doc_AddLine(d8, Doc_laser_off(d8)), LAMBDA d9 :
    Bind(Doc_laser_power_set(d9, d9.laser_power_default).obj, LAMBDA d10 :
    Bind(IF IsNone(s.footer) THEN d10
         ELSE [d10 EXCEPT !.code = @ \o ParenLines(Val(s.footer))], LAMBDA d11 :
    [ok |-> TRUE, doc |-> Doc_AddLine(d11, BlankLine), obj |-> r.obj]
    )))))))))))))

\* Layout.GCode(doc): the children in insertion order, from child i on.  The
\* result carries the document, the children as generation leaves them, and
\* the indices of the children emitted so far.
RECURSIVE Layout_GCode(_, _, _)
Layout_GCode(d, children, i) ==
    IF i > Len(children)
    THEN [ok |-> TRUE, doc |-> d, children |-> children, order |-> <<>>]
    ELSE Bind(Shape_GCode(d, children[i]), LAMBDA r :
         Bind([children EXCEPT ![i] = r.obj], LAMBDA ch :
            IF ~r.ok
            THEN [ok |-> FALSE, doc |-> r.doc, children |-> ch, order |-> <<>>]
            ELSE [Layout_GCode(r.doc, ch, i + 1) EXCEPT !.order = <<i>> \o @]))

\* np.argmin over the distances of the children listed in `left` to xy: the
\* position in `left` (1-based) of the first child at least distance.  With
\* xy nan every distance is nan and argmin is the first position.
ArgMinChild(children, left, xy) ==
    IF xy.nan THEN 1
    ELSE LET dist(k) == Distance(children[left[k]], xy.p)
         IN  CHOOSE k \in 1..Len(left) :
                /\ \A j \in 1..Len(left) : DistLeq(dist(k), dist(j))
                /\ \A j \in 1..(k - 1) : ~DistLeq(dist(j), dist(k))

\* `left` without its k-th element (list.pop).
Pop(left, k) == SubSeq(left, 1, k - 1) \o SubSeq(left, k + 1, Len(left))

\* startpoint_set(xy) with the current position xy, which is nan after a
\* Circle whose start point is nan: every distance to it is nan, argmin is
\* index 0 and nothing moves, and a Circle's start point becomes nan.
StartpointSetAt(s, xy) ==
    IF ~xy.nan THEN StartpointSet(s, xy.p)
    ELSE IF s.kind = "Circle" THEN [s EXCEPT !.start_nan = TRUE]
    ELSE Points(s).obj

\* The position after a child is emitted: its first point if it is closed,
\* its last point if it is open; nan after a Circle whose start point is nan.
PositionAfter(s) ==
    Bind(Points(s).pts, LAMBDA pts :
        [nan |-> s.kind = "Circle" /\ s.start_nan,
         p |-> IF s.is_closed THEN pts[1] ELSE pts[Len(pts)]])

\* Layout2dOptimizer.GCode(doc), from the current position xy with the
\* children listed in `left` still to emit: the nearest one is given its
\* start point and emitted, and the position moves to its first point if it
\* is closed and to its last point if it is open.  Taking the distances
\* reads the points of every child left.
RECURSIVE Layout2dOptimizer_GCode(_, _, _, _)
Layout2dOptimizer_GCode(d, children, left, xy) ==
    IF Len(left) = 0
    THEN [ok |-> TRUE, doc |-> d, children |-> children, order |-> <<>>]
    ELSE Bind([i \in 1..Len(children) |->
                 IF \E k \in 1..Len(left) : left[k] = i
                 THEN Points(children[i]).obj ELSE children[i]], LAMBDA read :
         Bind(ArgMinChild(read, left, xy), LAMBDA k :
         Bind(Shape_GCode(d, StartpointSetAt(read[left[k]], xy)), LAMBDA r :
         Bind([read EXCEPT ![left[k]] = r.obj], LAMBDA ch :
            IF ~r.ok
            THEN [ok |-> FALSE, doc |-> r.doc, children |-> ch, order |-> <<>>]
            ELSE [Layout2dOptimizer_GCode(r.doc, ch, Pop(left, k),
                                          PositionAfter(r.obj))
                    EXCEPT !.order = <<left[k]>> \o @]))))

\* networkx.algorithms.approximation.greedy_tsp(G, weight, source) on the
\* complete graph with nodes 1..n and edge weights w: from the source, go to
\* the node not yet visited that the least edge leads to (the lowest node of
\* these), until none is left, and close the cycle with the source.
RECURSIVE GreedyTspWalk(_, _, _)
GreedyTspWalk(w, nodeset, node) ==
    IF nodeset = {} THEN <<>>
    ELSE LET next == CHOOSE m \in nodeset :
                        /\ \A k \in nodeset : w[node][m] <= w[node][k]
                        /\ \A k \in nodeset : k < m => w[node][k] > w[node][m]
         IN  <<next>> \o GreedyTspWalk(w, nodeset \ {next}, next)

GreedyTsp(n, w, source) ==
    <<source>> \o GreedyTspWalk(w, (1..n) \ {source}, source) \o <<source>>

\* The children listed in node_list from its k-th entry on, emitted one
\* after the other by their GCode.
RECURSIVE GCodeInOrder(_, _, _, _)
GCodeInOrder(d, children, node_list, k) ==
    IF k > Len(node_list)
    THEN [ok |-> TRUE, doc |-> d, children |-> children, order |-> <<>>]
    ELSE Bind(Shape_GCode(d, children[node_list[k]]), LAMBDA r :
         Bind([children EXCEPT ![node_list[k]] = r.obj], LAMBDA ch :
            IF ~r.ok
            THEN [ok |-> FALSE, doc |-> r.doc, children |-> ch, order |-> <<>>]
            ELSE [GCodeInOrder(r.doc, ch, node_list, k + 1)
                    EXCEPT !.order = <<node_list[k]>> \o @]))

\* LayoutTravelingSalesment.GCode(doc): a complete graph over the children,
\* the weight of an edge the squared distance between the (x, y) of its two
\* children; the source is np.argmin over the children's distance() to the
\* origin, which raises ValueError on an empty list; the children are
\* emitted along the greedy tour without its closing node.  Taking the
\* distances reads the points of every child.
LayoutTravelingSalesment_GCode(d, children) ==
    IF Len(children) = 0
    THEN [ok |-> FALSE, doc |-> d, children |-> children, order |-> <<>>]
    ELSE Bind([i \in 1..Len(children) |-> Points(children[i]).obj], LAMBDA read :
         Bind([i \in 1..Len(read) |-> [j \in 1..Len(read) |->
                  Dist2(Pt(read[i].x, read[i].y), Pt(read[j].x, read[j].y))]],
              LAMBDA w :
         Bind(ArgMinChild(read, [i \in 1..Len(read) |-> i],
                          [nan |-> FALSE, p |-> Pt(0, 0)]), LAMBDA idx :
         Bind(GreedyTsp(Len(read), w, idx), LAMBDA cycle :
            GCodeInOrder(d, read, SubSeq(cycle, 1, Len(cycle) - 1), 1)))))

\* GCode of the layout's class.
LayoutGCode(d, l) ==
    IF l.kind = "LayoutTravelingSalesment"
    THEN LayoutTravelingSalesment_GCode(d, l.children)
    ELSE IF l.kind = "Layout2dOptimizer"
    THEN Layout2dOptimizer_GCode(d, l.children,
                                 [i \in 1..Len(l.children) |-> i],
                                 [nan |-> FALSE, p |-> Pt(0, 0)])
    ELSE Layout_GCode(d, l.children, 1)

\* A preamble that sets the units before the positioning mode.
DocPreamble_units_first(d) ==
    (IF Len(d.header) > 0 THEN ParenEachLine(d.header) ELSE <<>>)
    \o (IF d.job_control
        THEN <<BlankLine, CommentLine("Machine Setup"),
               MkLine("G21", "", <<>>), MkLine("G90", "", <<>>), BlankLine>>
        ELSE <<>>)

\* The lines Doc.GCode puts before the children.
DocPreamble(d) ==
    (IF Len(d.header) > 0 THEN ParenEachLine(d.header) ELSE <<>>)
    \o (IF d.job_control
        THEN <<BlankLine, CommentLine("Machine Setup"),
               MkLine("G90", "", <<>>), MkLine("G21", "", <<>>), BlankLine>>
        ELSE <<>>)

\* The lines Doc.GCode puts after the children.
DocPostamble(d) ==
    (IF d.job_control THEN <<BlankLine, MkLine("M2", "", <<>>)>> ELSE <<>>)
    \o (IF Len(d.footer) > 0 THEN ParenLines(d.footer) ELSE <<>>)

\* A GCode that appends to the buffer it finds.
Doc_GCode_cumulative(ls, d) ==
    Bind(LayoutGCode([d EXCEPT !.code = @ \o DocPreamble(d)], ls[d.layout]), LAMBDA r :
        [ok |-> r.ok,
         doc |-> IF r.ok THEN [r.doc EXCEPT !.code = @ \o DocPostamble(d)] ELSE r.doc,
         layouts |-> [ls EXCEPT ![d.layout] =
                        [@ EXCEPT !.x = Some(d.x), !.y = Some(d.y),
                                  !.z = Some(d.z), !.children = r.children]],
         order |-> r.order])

\* Doc.GCode(): clear the buffer, emit header and machine setup, place the
\* layout at the document origin and let it emit its children, emit the
\* end-of-program marker and the footer.  A raise in a child ends the call
\* there.  The result carries the document, the layouts and the emission
\* order.
Doc_GCode(ls, d) ==
    Bind(LayoutGCode([d EXCEPT !.code = DocPreamble(d)], ls[d.layout]), LAMBDA r :
        [ok |-> r.ok,
         doc |-> IF r.ok THEN [r.doc EXCEPT !.code = @ \o DocPostamble(d)] ELSE r.doc,
         layouts |-> [ls EXCEPT ![d.layout] =
                        [@ EXCEPT !.x = Some(d.x), !.y = Some(d.y),
                                  !.z = Some(d.z), !.children = r.children]],
         order |-> r.order])

\* Doc.GCode(filename) and Doc.Save(filename) call each other.  ls and d are
\* the layouts and the document, f the file's content, order the emission
\* order of the last generation; a filename is an Option, None for a call
\* given none.  The result carries all of these as the call leaves them and
\* the number of method calls made, the outermost included.
RECURSIVE Doc_GCode_file(_, _, _, _)
RECURSIVE Doc_Save(_, _, _, _)

\* A Save that writes the buffer as it finds it.
Doc_Save_as_found(ls, d, f, order) ==
    [ok |-> TRUE, doc |-> d, layouts |-> ls, order |-> order,
     file |-> Some(d.code), calls |-> 1]

\* Doc.Save(filename): generate if the buffer is empty, then write the
\* buffer to the file.  A generation that raises leaves the file alone.
Doc_Save(ls, d, f, order) ==
    IF Len(d.code) = 0
    THEN Bind(Doc_GCode_file(ls, d, f, None), LAMBDA r :
            [r EXCEPT !.file = IF r.ok THEN Some(r.doc.code) ELSE f,
                      !.calls = @ + 1])
    ELSE [ok |-> TRUE, doc |-> d, layouts |-> ls, order |-> order,
          file |-> Some(d.code), calls |-> 1]

\* Doc.GCode(filename): Doc.GCode() as above, then Save if a file name was
\* given.
Doc_GCode_file(ls, d, f, filename) ==
    Bind(Doc_GCode(ls, d), LAMBDA r :
        IF ~r.ok \/ IsNone(filename)
        THEN [ok |-> r.ok, doc |-> r.doc, layouts |-> r.layouts,
              order |-> r.order, file |-> f, calls |-> 1]
        ELSE Bind(Doc_Save(r.layouts, r.doc, f, r.order), LAMBDA s :
                [s EXCEPT !.calls = @ + 1]))

-----------------------------------------------------------------------------
(* Bounds and input domains *)

\* Most children a layout is given.
MaxChildren == 2

\* Most Layout objects created.
MaxLayouts == 2

\* Most half turns a Line is given by startpoint_set swapping its direction.
MaxHalfTurns == 3

\* The shapes handed to AddChild: the objects these constructor calls and
\* header/footer assignments return.
PlainRectangle == Rectangle_init(0, 0, 0, 100, 100, 0, None, None, "False").obj

TunedLine ==
    Shape_footer_set(
        Shape_header_set(Line_init(10, 10, 0, 30, 0, Some(200), Some(50)).obj,
                         Some(<<"pad">>)),
        Some(<<"done">>))

SunkCircle == Circle_init(30, 0, -10, 10, None, None, "False").obj

OverpoweredRectangle ==
    Rectangle_init(-20, 10, 0, 20, 20, 0, None, Some(150), "False").obj

ChildInputs == {PlainRectangle, TunedLine, SunkCircle, OverpoweredRectangle}

-----------------------------------------------------------------------------
(* Actions on the document *)

\* A call and its argument: a number in n, a text in s.
Call(op, n, s) == [op |-> op, n |-> n, s |-> s]

\* What the document's calls other than Save leave alone.
ShapeIdle == UNCHANGED <<shape, file, gerber>>

\* doc.AddChild(child)
AddChild(child) ==
    /\ Len(layouts[doc.layout].children) < MaxChildren
    /\ \E r \in {Doc_AddChild(layouts, doc, child)} :
           /\ layouts' = r.obj
           /\ err' = ~r.ok
    /\ lastOp' = Call("AddChild", 0, "")
    /\ UNCHANGED <<doc, emitted>>
    /\ ShapeIdle

\* A Doc setter call whose result is r: the document as the setter leaves
\* it, and whether it raised.
DocSetter(call, r) ==
    /\ doc' = r.obj
    /\ err' = ~r.ok
    /\ lastOp' = call
    /\ UNCHANGED <<layouts, emitted>>
    /\ ShapeIdle

\* doc.laser_power_default = v
SetLaserPowerDefault(v) ==
    DocSetter(Call("laser_power_default", v, ""), Doc_laser_power_default_set(doc, v))

\* doc.device_laser_max = v
SetDeviceLaserMax(v) ==
    DocSetter(Call("device_laser_max", v, ""), Doc_device_laser_max_set(doc, v))

\* doc.laser_power = v
SetLaserPower(v) ==
    DocSetter(Call("laser_power", v, ""), Doc_laser_power_set(doc, v))

\* doc.laser_on = v
SetLaserOn(v) == DocSetter(Call("laser_on", 0, v), Doc_laser_on_set(doc, v))

\* doc.speed_position = v
SetSpeedPosition(v) ==
    DocSetter(Call("speed_position", v, ""), Doc_speed_position_set(doc, v))

\* doc.speed_print = v
SetSpeedPrint(v) ==
    DocSetter(Call("speed_print", v, ""), Doc_speed_print_set(doc, v))

\* doc.fill_stepover = v
SetFillStepover(v) ==
    DocSetter(Call("fill_stepover", v, ""), Doc_fill_stepover_set(doc, v))

\* doc.z_retract_enabled = v
SetZRetractEnabled(v) ==
    DocSetter(Call("z_retract_enabled", 0, IF v THEN "True" ELSE "False"),
              Ok(Doc_z_retract_enabled_set(doc, v)))

\* doc.z_retract_height = v
SetZRetractHeight(v) ==
    DocSetter(Call("z_retract_height", v, ""),
              Ok(Doc_z_retract_height_set(doc, Some(v))))

\* A doc.layout = value call whose result is r.
LayoutSetter(call, r) ==
    /\ doc' = r.doc
    /\ layouts' = r.layouts
    /\ err' = ~r.ok
    /\ lastOp' = call
    /\ UNCHANGED emitted
    /\ ShapeIdle

\* doc.layout = kind(): a new Layout object of class kind
SetLayoutNew(kind) ==
    /\ Len(layouts) < MaxLayouts
    /\ LayoutSetter(Call("layout", Len(layouts) + 1, kind),
                    Doc_layout_set(Append(layouts, Layout_init(kind)), doc,
                                   Some(Len(layouts) + 1)))

\* doc.layout = a Layout object created earlier
SetLayoutOld(li) ==
    /\ li \in 1..Len(layouts)
    /\ LayoutSetter(Call("layout", li, layouts[li].kind),
                    Doc_layout_set(layouts, doc, Some(li)))

\* doc.layout = something that is not a Layout (None, a Shape, a string)
SetLayoutInvalid ==
    LayoutSetter(Call("layout", 0, "not a Layout"),
                 Doc_layout_set(layouts, doc, None))

\* doc.GCode(), on a buffer that is empty or holds earlier output
GCode ==
    /\ \E r \in {Doc_GCode(layouts, doc)} :
           /\ doc' = r.doc
           /\ layouts' = r.layouts
           /\ emitted' = r.order
           /\ err' = ~r.ok
    /\ lastOp' = Call("GCode", 0, IF Len(doc.code) = 0 THEN "empty buffer"
                                   ELSE "used buffer")
    /\ ShapeIdle

\* The state after doc = Doc(job_control), and after doc.layout = kind() on
\* it when the layout is not the plain Layout the constructor attaches.
DocStart(job_control, kind) ==
    \E r \in {IF kind = "Layout" THEN Doc_init(job_control)
              ELSE Bind(Doc_init(job_control), LAMBDA i :
                        Doc_layout_set(Append(i.layouts, Layout_init(kind)),
                                       i.doc, Some(2)))} :
        /\ doc = r.doc
        /\ layouts = r.layouts
        /\ shape = None
        /\ err = FALSE
        /\ lastOp = Call("init", 0, "")
        /\ emitted = <<>>
        /\ file = None
        /\ gerber = None

\* Generation: documents of either layout strategy, with or without job
\* control, given children and settings and generated repeatedly.
Init == \E jc \in BOOLEAN, kind \in {"Layout", "Layout2dOptimizer"} : DocStart(jc, kind)

Next ==
    \/ \E c \in ChildInputs : AddChild(c)
    \/ SetLaserPowerDefault(50)
    \/ \E v \in BOOLEAN : SetZRetractEnabled(v)
    \/ SetZRetractHeight(50)
    \/ GCode

Spec == Init /\ [][Next]_vars

-----------------------------------------------------------------------------
(* The document's setters: one document, every setter with values it takes
   and values it refuses, children with laser-power overrides, generation *)

InitDoc == DocStart(TRUE, "Layout")

NextDoc ==
    \/ \E v \in {"m3", "M5"} : SetLaserOn(v)
    \/ \E v \in {30, 101, -1} : SetLaserPower(v)
    \/ \E v \in {50, -1} : SetLaserPowerDefault(v)
    \/ \E v \in {500, 0, -1} : SetDeviceLaserMax(v)
    \/ \E v \in {1000, 0} : SetSpeedPosition(v)
    \/ \E v \in {100, -5} : SetSpeedPrint(v)
    \/ \E v \in {2, 0} : SetFillStepover(v)
    \/ \E c \in {TunedLine, OverpoweredRectangle} : AddChild(c)
    \/ GCode

SpecDoc == InitDoc /\ [][NextDoc]_vars

-----------------------------------------------------------------------------
(* The document's layout: layouts created, attached, re-attached and
   refused, and children added to the attached one *)

\* doc.layout = GridLayout(rows, columns): the assignment takes place if the
\* constructor returns
SetLayoutGrid(rows, columns) ==
    \E r \in {GridLayout_init(rows, columns)} :
        LayoutSetter(Call("GridLayout", rows, ""),
                     IF r.ok
                     THEN Doc_layout_set(Append(layouts, r.obj), doc,
                                         Some(Len(layouts) + 1))
                     ELSE [ok |-> FALSE, doc |-> doc, layouts |-> layouts])

NextLayout ==
    \/ \E kind \in {"Layout", "Layout2dOptimizer"} : SetLayoutNew(kind)
    \/ \E n \in {0, 1, 2} : SetLayoutGrid(n, n)
    \/ \E li \in 1..MaxLayouts : SetLayoutOld(li)
    \/ SetLayoutInvalid
    \/ \E c \in {TunedLine, SunkCircle} : AddChild(c)

SpecLayout == InitDoc /\ [][NextLayout]_vars

-----------------------------------------------------------------------------
(* One shape on its own: constructors, setters, reads of points and
   startpoint_set *)

DocIdle == UNCHANGED <<doc, layouts, emitted, file, gerber>>

\* The most points a PolyLine is constructed from.
MaxPoints == 2

\* shape = Variant(...), the constructor call's result being r: a
\* constructor that raises binds no object and the name keeps the old one.
NewShape(call, r) ==
    /\ shape' = IF r.ok THEN Some(r.obj) ELSE shape
    /\ err' = ~r.ok
    /\ lastOp' = call
    /\ DocIdle

\* shape = Rectangle(0, 0, 0, width, height, rotation, ...)
NewRectangle(width, height, rotation, speed_print, laser_power, is_filled) ==
    NewShape(Call("Rectangle", width, is_filled),
             Rectangle_init(0, 0, 0, width, height, rotation,
                            speed_print, laser_power, is_filled))

\* shape = Line(10, 10, 0, length, rotation)
NewLine(length, rotation) ==
    NewShape(Call("Line", length, ""),
             Line_init(10, 10, 0, length, rotation, None, None))

\* shape = Circle(30, 0, 0, radius, is_filled=...)
NewCircle(radius, is_filled) ==
    NewShape(Call("Circle", radius, is_filled),
             Circle_init(30, 0, 0, radius, None, None, is_filled))

\* shape = Polygon(points): a triangle given from its lower left corner on.
NewPolygon(points) ==
    NewShape(Call("Polygon", Len(points), ""),
             Polygon_init(Some(points), None, 0, None, "False"))

\* The n-by-2 array of the points (10, 5), (20, 20), ..., (10 n, 5 n^2).
PolyLinePoints(n) ==
    NdArray(TRUE, <<n, 2>>, [i \in 1..n |-> Pt(10 * i, 5 * i * i)])

\* shape = PolyLine(points=a): the call is recorded by the array's first
\* dimension and by what the value is.
NewPolyLine(a, what) ==
    NewShape(Call("PolyLine", a.shape[1], what),
             PolyLine_init(0, Some(a), None, None))

\* A call on the shape whose result is r.
ShapeCall(call, r) ==
    /\ shape' = Some(r.obj)
    /\ err' = ~r.ok
    /\ lastOp' = call
    /\ DocIdle

\* shape.x = v
SetX(v) ==
    /\ ~IsNone(shape)
    /\ ShapeCall(Call("x", v, ""), Ok(Shape_x_set(Val(shape), v)))

\* shape.width = v
SetWidth(v) ==
    /\ ~IsNone(shape) /\ Val(shape).kind = "Rectangle"
    /\ ShapeCall(Call("width", v, ""), Rectangle_width_set(Val(shape), v))

\* shape.height = v
SetHeight(v) ==
    /\ ~IsNone(shape) /\ Val(shape).kind = "Rectangle"
    /\ ShapeCall(Call("height", v, ""), Rectangle_height_set(Val(shape), v))

\* shape.radius = v
SetRadius(v) ==
    /\ ~IsNone(shape) /\ Val(shape).kind = "Circle"
    /\ ShapeCall(Call("radius", v, ""), Circle_radius_set(Val(shape), v))

\* shape.length = v
SetLength(v) ==
    /\ ~IsNone(shape) /\ Val(shape).kind = "Line"
    /\ ShapeCall(Call("length", v, ""), Line_length_set(Val(shape), v))

\* shape.rotation = q quarter turns (q * 90 degrees on a Line)
SetRotation(q) ==
    /\ ~IsNone(shape) /\ Val(shape).kind \in {"Rectangle", "Line"}
    /\ ShapeCall(Call("rotation", q, ""),
                 Ok(IF Val(shape).kind = "Rectangle"
                    THEN Rectangle_rotation_set(Val(shape), q)
                    ELSE Line_rotation_set(Val(shape), q * 90)))

\* shape.speed_print = v
SetShapeSpeedPrint(v) ==
    /\ ~IsNone(shape)
    /\ ShapeCall(Call("speed_print", v, ""), Shape_speed_print_set(Val(shape), v))

\* shape.laser_power = v
SetShapeLaserPower(v) ==
    /\ ~IsNone(shape)
    /\ ShapeCall(Call("laser_power", v, ""), Shape_laser_power_set(Val(shape), v))

\* shape.is_filled = v
SetIsFilled(v) ==
    /\ ~IsNone(shape)
    /\ ShapeCall(Call("is_filled", 0, v), Shape_is_filled_set(Val(shape), v))

\* shape.points
ReadPoints ==
    /\ ~IsNone(shape)
    /\ ShapeCall(Call("points", 0, ""), Ok(Points(Val(shape)).obj))

\* shape.startpoint_set(xy).  The call is recorded by the x of its reference
\* point (the reference points of one specification differ in x) and by
\* whether it repeats the call made just before it.
SetStartpoint(xy) ==
    /\ ~IsNone(shape)
    /\ Val(shape).kind = "Line" => Val(shape).rotation < 180 * MaxHalfTurns
    /\ ShapeCall(Call("startpoint_set", xy[1],
                      IF lastOp.op = "startpoint_set" /\ lastOp.n = xy[1]
                      THEN "again" ELSE "first"),
                 Ok(StartpointSet(Val(shape), xy)))

\* The constructor calls made: arguments every setter accepts, a filled and
\* turned rectangle, and a width, a height, a print speed and a laser power
\* out of range.
RectangleArgs ==
    {<<40, 20, 0, None, None, "False">>,
     <<40, 20, 1, None, None, "True">>,
     <<0, 20, 0, None, None, "False">>,
     <<40, -20, 0, None, None, "False">>,
     <<40, 20, 0, Some(-5), None, "False">>,
     <<40, 20, 0, None, Some(150), "False">>}

NextShape ==
    \/ \E a \in RectangleArgs : NewRectangle(a[1], a[2], a[3], a[4], a[5], a[6])
    \/ \E length \in {30, 0} : NewLine(length, 0)
    \/ \E a \in {<<10, "False">>, <<0, "False">>, <<10, "yes">>} : NewCircle(a[1], a[2])
    \/ \E n \in 0..MaxPoints : NewPolyLine(PolyLinePoints(n), "n-by-2")
    \/ NewPolyLine(NdArray(FALSE, <<2>>, <<Pt(10, 5), Pt(20, 20)>>), "list")
    \/ NewPolygon(<<Pt(20, 20), Pt(60, 20), Pt(60, 60)>>)
    \/ \E v \in {0, 10} : SetX(v)
    \/ \E v \in {20, 0} : SetWidth(v)
    \/ \E v \in {40, -20} : SetHeight(v)
    \/ \E v \in {20, 0} : SetRadius(v)
    \/ \E v \in {50, 0} : SetLength(v)
    \/ \E q \in {0, 1} : SetRotation(q)
    \/ \E v \in {200, 0} : SetShapeSpeedPrint(v)
    \/ \E v \in {50, 101} : SetShapeLaserPower(v)
    \/ \E v \in {"True", "False", "yes"} : SetIsFilled(v)
    \/ ReadPoints
    \/ \E xy \in {Pt(0, 0), Pt(100, 100)} : SetStartpoint(xy)

SpecShape == InitDoc /\ [][NextShape]_vars

-----------------------------------------------------------------------------
(* One Circle on its own: centre and radius assignments and startpoint_set
   with reference points on the centre, beside it and straight above or
   below it.  Radii are multiples of 5 units and every reference point lies
   in a 3:4:5 direction or along an axis from every centre, so that the start
   point has whole coordinates *)

\* shape = Circle(x, y, 0, radius)
NewCircleAt(x, y, radius) ==
    NewShape(Call("Circle", radius, "False"),
             Circle_init(x, y, 0, radius, None, None, "False"))

\* shape.y = v
SetY(v) ==
    /\ ~IsNone(shape)
    /\ ShapeCall(Call("y", v, ""), Ok(Shape_y_set(Val(shape), v)))

NextCircle ==
    \/ \E radius \in {50, 0} : NewCircleAt(0, 0, radius)
    \/ \E v \in {0, 60} : SetX(v)
    \/ \E v \in {0, 80} : SetY(v)
    \/ \E v \in {50, 100, 0} : SetRadius(v)
    \/ \E xy \in {Pt(0, 0), Pt(30, 40), Pt(60, 80)} : SetStartpoint(xy)

SpecCircle == InitDoc /\ [][NextCircle]_vars

-----------------------------------------------------------------------------
(* The nearest-neighbour layout: a document whose layout is a
   Layout2dOptimizer, given up to MaxCandidates children, one of them a Circle
   centred on the position the tool starts from, and generated *)

\* Most children the nearest-neighbour layout is given.
MaxCandidates == 3

\* Circle(x=0, y=0, radius=5)
OriginCircle == Circle_init(0, 0, 0, 50, None, None, "False").obj

\* doc.AddChild(child) on the nearest-neighbour document
AddCandidate(child) ==
    /\ Len(layouts[doc.layout].children) < MaxCandidates
    /\ \E r \in {Doc_AddChild(layouts, doc, child)} :
           /\ layouts' = r.obj
           /\ err' = ~r.ok
    /\ lastOp' = Call("AddChild", 0, child.kind)
    /\ UNCHANGED <<doc, emitted>>
    /\ ShapeIdle

InitOptimizer == DocStart(TRUE, "Layout2dOptimizer")

NextOptimizer ==
    \/ \E c \in {OriginCircle, TunedLine, SunkCircle, PlainRectangle} : AddCandidate(c)
    \/ GCode

SpecOptimizer == InitOptimizer /\ [][NextOptimizer]_vars

-----------------------------------------------------------------------------
(* The travelling-salesman layout: a document whose layout is a
   LayoutTravelingSalesment, given up to MaxCandidates children and
   generated *)

\* Line(60, 0, length=3): a child whose x, y lie beyond the others'.
FarLine == Line_init(60, 0, 0, 30, 0, None, None).obj

InitSalesman == DocStart(TRUE, "LayoutTravelingSalesment")

NextSalesman ==
    \/ \E c \in {FarLine, TunedLine, SunkCircle, PlainRectangle} : AddCandidate(c)
    \/ GCode

SpecSalesman == InitSalesman /\ [][NextSalesman]_vars

-----------------------------------------------------------------------------
(* Fill synthesis: filled rectangles added to a document under several
   stepovers, one of them turned a quarter, one narrower than two stepovers
   and one lower than half a stepover *)

FilledRectangle == Rectangle_init(0, 0, 0, 40, 20, 0, None, None, "True").obj

TurnedFilledRectangle == Rectangle_init(0, 0, 0, 100, 28, 1, None, None, "True").obj

NarrowFilledRectangle == Rectangle_init(0, 0, 0, 4, 20, 0, None, None, "True").obj

ShallowFilledRectangle == Rectangle_init(0, 0, 0, 40, 2, 0, None, None, "True").obj

FilledInputs ==
    {FilledRectangle, TurnedFilledRectangle, NarrowFilledRectangle,
     ShallowFilledRectangle}

\* The children added: the filled rectangles, a line, and a filled
\* rectangle and a filled circle that cut at z = -0.5.
NextFill ==
    \/ \E v \in {2, 3, 8, 0} : SetFillStepover(v)
    \/ \E c \in FilledInputs \cup {TunedLine} : AddChild(c)
    \/ AddChild(Rectangle_init(0, 0, -5, 40, 20, 0, None, None, "True").obj)
    \/ AddChild(Circle_init(0, 0, -5, 20, None, None, "True").obj)

SpecFill == InitDoc /\ [][NextFill]_vars

-----------------------------------------------------------------------------
(* Comment texts: document headers and footers and shape headers of one
   line and of two, generated *)

\* Rectangle(x=0, y=0, width=10, height=10) with a header of two lines
NotedRectangle ==
    Shape_header_set(PlainRectangle, Some(<<"outline", "second pass">>))

\* doc.header = text
SetHeader(text) ==
    DocSetter(Call("header", Len(text), ""), Ok(Doc_header_set(doc, text)))

\* doc.footer = text
SetFooter(text) ==
    DocSetter(Call("footer", Len(text), ""), Ok(Doc_footer_set(doc, text)))

NextText ==
    \/ \E text \in {<<"job">>, <<"job", "by hand">>} : SetHeader(text)
    \/ \E text \in {<<"end">>, <<"end", "of job">>} : SetFooter(text)
    \/ \E c \in {TunedLine, NotedRectangle} : AddChild(c)
    \/ GCode

SpecText == InitDoc /\ [][NextText]_vars

-----------------------------------------------------------------------------
(* Saving: documents with and without job control, given children, one of
   which makes generation raise, generated, saved, and generated into the
   file *)

\* A call of Doc.Save or Doc.GCode(filename) whose result is r, recorded
\* with the number of method calls it made and the buffer it found.
FileCall(op, r) ==
    /\ doc' = r.doc
    /\ layouts' = r.layouts
    /\ emitted' = r.order
    /\ file' = r.file
    /\ err' = ~r.ok
    /\ lastOp' = Call(op, r.calls, IF Len(doc.code) = 0 THEN "empty buffer"
                                   ELSE "used buffer")
    /\ UNCHANGED <<shape, gerber>>

\* doc.Save("out.gcode")
Save == \E r \in {Doc_Save(layouts, doc, file, emitted)} : FileCall("Save", r)

\* doc.GCode("out.gcode")
GCodeFile ==
    \E r \in {Doc_GCode_file(layouts, doc, file, Some("out.gcode"))} :
        FileCall("GCode(filename)", r)

InitSave == \E jc \in BOOLEAN : DocStart(jc, "Layout")

NextSave ==
    \/ \E c \in {TunedLine, OverpoweredRectangle} : AddChild(c)
    \/ SetLaserPowerDefault(50)
    \/ GCode
    \/ Save
    \/ GCodeFile

SpecSave == InitSave /\ [][NextSave]_vars

-----------------------------------------------------------------------------
(* Gerber to G-code conversion (gbr2grbl.py), checked under SpecGerber *)

\* The most objects a loaded Gerber file holds.
MaxObjects == 2

\* A gerbonara graphic primitive as far as to_gcode reads it: its class in
\* kind, a Rectangle's centre, sides and rotation, a Line's end points and
\* width, a Circle's centre and radius.  Lengths are tenths of a millimetre
\* and the rotation tenths of a radian, so that a number keeps its value
\* wherever it is passed.
GerbonaraPrimitive(kind, rotation, run, width) ==
    [r |-> 0, kind |-> kind, x |-> 0, y |-> 0,
     rotation |-> rotation, width |-> width, w |-> 20, h |-> 10,
     x1 |-> 0, y1 |-> 0, x2 |-> run, y2 |-> 0]

\* The body of to_gcode's loop up to `if shape:`, for one primitive: a Line
\* of no length is replaced by a Circle of half its width; a Rectangle
\* makes gcd.Rectangle(prim.x, prim.y, prim.w, prim.h, prim.rotation), whose
\* positional arguments are x, y, z, width, height; a Line, Circle, Arc or
\* ArcPoly is logged as not supported and leaves shape at None; any other
\* primitive raises ValueError.  The result is the shape (Option).
Gerber2Gcode_shape(prim0) ==
    Bind(IF prim0.kind = "Line" /\ prim0.x1 = prim0.x2 /\ prim0.y1 = prim0.y2
         THEN [prim0 EXCEPT !.kind = "Circle", !.x = prim0.x1, !.y = prim0.y1,
                            !.r = prim0.width \div 2]
         ELSE prim0,
         LAMBDA prim :
            CASE prim.kind = "Rectangle" ->
                    Bind(Rectangle_init(prim.x, prim.y, prim.w, prim.h,
                                        prim.rotation, 0, None, None, "False"),
                         LAMBDA r : [ok |-> r.ok,
                                     obj |-> IF r.ok THEN Some(r.obj) ELSE None])
              [] prim.kind \in {"Line", "Circle", "Arc", "ArcPoly"} -> Ok(None)
              [] OTHER -> Raise(None))

\* to_gcode's loop from object i on: the first primitive of the object
\* (list(obj.to_primitives())[0], IndexError if it has none) gives a shape
\* or not, and a shape is added to the document.  The result is the layouts.
RECURSIVE Gerber2Gcode_objects(_, _, _, _)
Gerber2Gcode_objects(ls, d, objects, i) ==
    IF i > Len(objects) THEN Ok(ls)
    ELSE IF Len(objects[i]) = 0 THEN Raise(ls)
    ELSE Bind(Gerber2Gcode_shape(objects[i][1]), LAMBDA s :
            IF ~s.ok THEN Raise(ls)
            ELSE IF IsNone(s.obj) THEN Gerber2Gcode_objects(ls, d, objects, i + 1)
            ELSE Bind(Doc_AddChild(ls, d, Val(s.obj)), LAMBDA a :
                    IF ~a.ok THEN a
                    ELSE Gerber2Gcode_objects(a.obj, d, objects, i + 1)))

\* Gerber2Gcode.to_gcode() on the loaded objects g (Option), f the file's
\* content.  Without a loaded file it raises ValueError.  It builds
\* doc = gcd.Doc() and evaluates gcd.GraphLayout(): gcode_doc defines the
\* classes below and no GraphLayout, so the attribute lookup raises
\* AttributeError.  The statements after it run the loop and write the
\* file through doc.GCode(filename).  The result names the stage that
\* raised and carries the document built, with the number of its shapes.
Gerber2Gcode_to_gcode(g, f) ==
    LET gcd == {"Layout", "Layout2dOptimizer", "LayoutTravelingSalesment",
                "CellLayout", "GridLayout", "Doc", "Shape", "Line", "PolyLine",
                "Rectangle", "Polygon", "Circle", "Text", "DocSpeedPower",
                "DocFocus"}
        raised(stage, i) ==
            [ok |-> FALSE, stage |-> stage, shapes |-> 0, doc |-> i.doc,
             layouts |-> i.layouts, order |-> <<>>, file |-> f]
    IN  IF IsNone(g) THEN raised("no file", Doc_init(TRUE))
        ELSE Bind(Doc_init(TRUE), LAMBDA i :
            IF "GraphLayout" \notin gcd THEN raised("layout", i)
            ELSE Bind(Doc_layout_set(Append(i.layouts, Layout_init("GraphLayout")),
                                     i.doc, Some(2)), LAMBDA l :
                 Bind(Gerber2Gcode_objects(l.layouts, l.doc, Val(g), 1), LAMBDA o :
                    IF ~o.ok
                    THEN raised("primitive", [doc |-> l.doc, layouts |-> o.obj])
                    ELSE Bind(Doc_GCode_file(o.obj, l.doc, f, Some("out.gcode")),
                              LAMBDA r :
                                [ok |-> r.ok,
                                 stage |-> IF r.ok THEN "returned" ELSE "GCode",
                                 shapes |-> Len(o.obj[l.doc.layout].children),
                                 doc |-> r.doc, layouts |-> r.layouts,
                                 order |-> r.order, file |-> r.file]))))

\* g2g.load(filename, polarity) of a Gerber file that parses into `objects`,
\* each given by the primitives its to_primitives() yields.
Load(objects) ==
    /\ gerber' = Some(objects)
    /\ err' = FALSE
    /\ lastOp' = Call("load", Len(objects), "")
    /\ UNCHANGED <<doc, layouts, shape, emitted, file>>

\* g2g.to_gcode(): the document it builds is its own and is dropped when it
\* returns or raises; the file it writes stays.
ToGcode ==
    \E r \in {Gerber2Gcode_to_gcode(gerber, file)} :
        /\ file' = r.file
        /\ err' = ~r.ok
        /\ lastOp' = Call("to_gcode", r.shapes, r.stage)
        /\ UNCHANGED <<doc, layouts, shape, emitted, gerber>>

\* Files of up to MaxObjects objects: flashes of a rectangle aperture with
\* and without rotation, a track, a round pad drawn as a track of no length,
\* an arc, a region (ArcPoly), an object whose primitive is of another
\* class, and a macro flash that yields a rectangle and then a circle.
NextGerber ==
    \/ \E n \in 0..MaxObjects :
       \E objects \in [1..n ->
            {<<GerbonaraPrimitive("Rectangle", 0, 0, 0)>>,
             <<GerbonaraPrimitive("Rectangle", 16, 0, 0)>>,
             <<GerbonaraPrimitive("Line", 0, 30, 2)>>,
             <<GerbonaraPrimitive("Line", 0, 0, 8)>>,
             <<GerbonaraPrimitive("Arc", 0, 0, 2)>>,
             <<GerbonaraPrimitive("ArcPoly", 0, 0, 0)>>,
             <<GerbonaraPrimitive("Polyline", 0, 0, 0)>>,
             <<GerbonaraPrimitive("Rectangle", 16, 0, 0),
               GerbonaraPrimitive("Circle", 0, 0, 0)>>}] :
          Load(objects)
    \/ ToGcode

SpecGerber == InitDoc /\ [][NextGerber]_vars

-----------------------------------------------------------------------------
(* Properties of generation, checked under Spec *)

\* The children of the document's layout.
Children == layouts[doc.layout].children

\* The last call was a Doc.GCode() that returned.
Generated == lastOp.op = "GCode" /\ ~err

\* The lines of a buffer that are of kind op.
LinesOf(code, op) == SelectSeq(code, LAMBDA l : l.op = op)

\* a is a subsequence of b from positions i and j on: its lines occur in b
\* in order.
RECURSIVE OccursInOrder(_, _, _, _)
OccursInOrder(a, i, b, j) ==
    IF i > Len(a) THEN TRUE
    ELSE IF j > Len(b) THEN FALSE
    ELSE IF a[i] = b[j] THEN OccursInOrder(a, i + 1, b, j + 1)
    ELSE OccursInOrder(a, i, b, j + 1)

\* A buffer with the power taken out of its laser-on lines.
AnyPower(code) ==
    [i \in 1..Len(code) |->
        IF code[i].op = "laser_on" THEN [code[i] EXCEPT !.n = <<>>] ELSE code[i]]

\* The lines C1 lists for shape s in a document with settings d, the power
\* of the laser-on line left open.
C1_ShapeLines(d, s) ==
    LET pts == Points(s).pts
        Comment(text) == IF IsNone(text) THEN <<>> ELSE ParenLines(Val(text))
    IN  <<ShapeIdLine(s)>>
        \o Comment(s.header)
        \o (IF d.z_retract_enabled
            THEN <<MkLine("G0", "Z", <<Fmt3(Val(d.z_retract_height)),
                                       Fmt1(d.speed_position)>>)>>
            ELSE <<>>)
        \o <<MkLine("G0", "", FmtXY(s, pts[1]) \o <<Fmt1(d.speed_position)>>),
             MkLine("G0", "Z", <<Fmt3(s.z)>>),
             MkLine("G1", "F", <<Fmt1(IF IsNone(s.speed_print) THEN d.speed_print
                                      ELSE Val(s.speed_print))>>),
             MkLine("laser_on", d.laser_on, <<>>)>>
        \o (IF Len(pts) > 1
            THEN [i \in 1..(Len(pts) - 1) |-> MkLine("G1", "", FmtXY(s, pts[i + 1]))]
                 \o (IF s.is_closed THEN <<MkLine("G1", "", FmtXY(s, pts[1]))>>
                     ELSE <<>>)
            ELSE <<Circle_gcode(s)>>)
        \o <<MkLine("laser_off", d.laser_off, <<>>)>>
        \o Comment(s.footer)
        \o <<BlankLine>>

\* The lines C1 lists for the children emitted, in emission order from the
\* k-th on.
RECURSIVE C1_EmittedLines(_)
C1_EmittedLines(k) ==
    IF k > Len(emitted) THEN <<>>
    ELSE C1_ShapeLines(doc, Children[emitted[k]]) \o C1_EmittedLines(k + 1)

\* No G0 line lies between a laser-on line and the next laser-off line.
C1_NoTravelWhileOn(code) ==
    \A i \in 1..Len(code) : \A j \in (i + 1)..Len(code) :
        (code[i].op = "laser_on" /\ code[j].op = "G0")
            => \E k \in (i + 1)..(j - 1) : code[k].op = "laser_off"

\* C1: between the document's opening and closing lines, the buffer a
\* Doc.GCode() call leaves is, for each shape in emission order, exactly:
\* shape-identifying comment, header if set, Z-retract if enabled, one G0 to
\* the first point at positioning speed, one Z move to the shape's z, one
\* feed-rate line with the shape's speed override or the document's print
\* speed, the laser-on line, the n-1 cutting moves to points 2..n and one
\* more to the first point iff the shape is closed (the custom motion command
\* for a one-point shape), the laser-off line, footer if set, one blank line;
\* and no buffer ever has a G0 between a laser-on and the next laser-off.
C1_ShapeLineOrder ==
    /\ Generated =>
          AnyPower(doc.code) =
              DocPreamble(doc) \o C1_EmittedLines(1) \o DocPostamble(doc)
    /\ C1_NoTravelWhileOn(doc.code)

\* C1's case: a generation with Z-retraction on that emitted two shapes, an
\* open one with a header, a footer and a speed override, and a closed one.
C1_Witness ==
    /\ Generated
    /\ doc.z_retract_enabled
    /\ Len(emitted) = 2
    /\ \E i \in 1..2 :
          /\ ~Children[i].is_closed
          /\ ~IsNone(Children[i].header)
          /\ ~IsNone(Children[i].footer)
          /\ ~IsNone(Children[i].speed_print)
    /\ \E i \in 1..2 : Children[i].is_closed

\* The document of C2's scenario: job control, the sequential layout,
\* default speeds and powers, one Rectangle(x=0, y=0, width=10, height=10),
\* just generated.
C2_Scenario ==
    /\ Generated
    /\ doc.job_control
    /\ layouts[doc.layout].kind = "Layout"
    /\ Len(Children) = 1
    /\ [Children[1] EXCEPT !.points = None] = PlainRectangle
    /\ doc.laser_power_default = DocClass.laser_power_default
    /\ ~doc.z_retract_enabled

\* A cutting move to the point (px, py).
C2_Cut(px, py) == MkLine("G1", "", <<Fmt3(px), Fmt3(py)>>)

\* The lines of C2's scenario around the cutting moves `cuts`.
C2_Lines(cuts) ==
    <<MkLine("G90", "", <<>>),
      MkLine("G21", "", <<>>),
      MkLine("G0", "", <<Fmt3(-50), Fmt3(-50), Fmt1(3000)>>),
      MkLine("G0", "Z", <<Fmt3(0)>>),
      MkLine("G1", "F", <<Fmt1(500)>>),
      MkLine("laser_on", "M4", <<FmtWhole(800), FmtWhole(80)>>)>>
    \o cuts
    \o <<MkLine("laser_off", "M5", <<>>), MkLine("M2", "", <<>>)>>

\* The corners of the scenario's rectangle other than the first, (-5,-5).
C2_RemainingCorners == {<<-50, 50>>, <<50, 50>>, <<50, -50>>}

C3_GenerateTwiceSameBuffer ==
    [][(Generated /\ lastOp'.op = "GCode" /\ ~err') => doc'.code = doc.code]_vars

\* C4: after a Doc.GCode() call, whatever the buffer held before, the buffer
\* holds one absolute-mode line and one end-of-program marker when job
\* control is on (the marker only if the call returned) and none otherwise,
\* and one shape-identifying comment per child the call reached.
C4_BufferHoldsLastCallOnly ==
    lastOp.op = "GCode" =>
        /\ Len(LinesOf(doc.code, "G90")) = (IF doc.job_control THEN 1 ELSE 0)
        /\ Len(LinesOf(doc.code, "M2")) =
              (IF doc.job_control /\ ~err THEN 1 ELSE 0)
        /\ Len(LinesOf(doc.code, "shapeid")) =
              Len(emitted) + (IF err THEN 1 ELSE 0)
        /\ Len(LinesOf(doc.code, "laser_off")) = Len(emitted)

\* C4's case: a Doc.GCode() call on a buffer that held earlier output, on a
\* document with job control and two children, both emitted.
C4_Witness ==
    /\ Generated
    /\ lastOp.s = "used buffer"
    /\ doc.job_control
    /\ Len(emitted) = 2

\* The laser-on line at power p percent.
C5_LaserOnAt(p) == Doc_laser_on([doc EXCEPT !.laser_power = p])

\* C5: in the output of a Doc.GCode() that returned, the laser-on line of
\* every shape emitted encodes the shape's laser-power override if it has
\* one and the document's laser_power_default otherwise.
C5_LaserOnEncodesOverrideOrDefault ==
    Generated =>
        \A k \in 1..Len(emitted) :
            LinesOf(doc.code, "laser_on")[k] =
                C5_LaserOnAt(IF IsNone(Children[emitted[k]].laser_power)
                             THEN doc.laser_power_default
                             ELSE Val(Children[emitted[k]].laser_power))

-----------------------------------------------------------------------------
(* Properties of a shape, checked under SpecShape *)

\* The last call was a constructor call.
Constructed == lastOp.op \in {"Rectangle", "Line", "Circle", "PolyLine", "Polygon"}

\* C6: a call on a shape whose is_filled is true leaves it true, and
\* assigning False to it raises.
C6_IsFilledNeverCleared ==
    [][(~IsNone(shape) /\ Val(shape).is_filled /\ ~Constructed')
          => /\ Val(shape').is_filled
             /\ (lastOp'.op = "is_filled" /\ lastOp'.s = "False") => err']_vars

\* C6's case: False was assigned to the is_filled of a filled shape.
C6_Witness ==
    /\ ~IsNone(shape)
    /\ Val(shape).is_filled
    /\ lastOp.op = "is_filled"
    /\ lastOp.s = "False"
    /\ err

\* C7: every shape, however reached, has strictly positive dimensions
\* (width and height of a Rectangle, radius of a Circle, length of a Line),
\* a print-speed override that is unset or strictly positive and a
\* laser-power override that is unset or within [0,100].
C7_ShapeFieldsValid ==
    ~IsNone(shape) =>
        /\ Val(shape).kind = "Rectangle"
              => Val(shape).width > 0 /\ Val(shape).height > 0
        /\ Val(shape).kind = "Circle" => Val(shape).radius > 0
        /\ Val(shape).kind = "Line" => Val(shape).length > 0
        /\ IsNone(Val(shape).speed_print) \/ Val(Val(shape).speed_print) > 0
        /\ IsNone(Val(shape).laser_power)
              \/ Val(Val(shape).laser_power) \in 0..100

\* The corners C10 lists for a rectangle at rotation 0.
C10_Corners(s) ==
    <<Pt(s.x - s.width \div 2, s.y - s.height \div 2),
      Pt(s.x - s.width \div 2, s.y + s.height \div 2),
      Pt(s.x + s.width \div 2, s.y + s.height \div 2),
      Pt(s.x + s.width \div 2, s.y - s.height \div 2)>>

\* C10: the points of every Rectangle whose rotation is 0 are its four
\* corners lower left, upper left, upper right, lower right, in that loop
\* order (from whichever corner the loop starts), and their bounding box is
\* width by height, which is Size().
C10_PointsAreCornersAtRotation0 ==
    (~IsNone(shape) /\ Val(shape).kind = "Rectangle" /\ Val(shape).rotation = 0)
        => /\ \E k \in 0..3 :
                Points(Val(shape)).pts = Roll(C10_Corners(Val(shape)), k)
           /\ BBox(Points(Val(shape)).pts) = Rectangle_Size(Val(shape))

-----------------------------------------------------------------------------
(* Properties of the document's setters, checked under SpecDoc *)

\* The machine state C8 calls valid.
C8_DocValid(d) ==
    /\ d.laser_on \in {"M3", "M4"}
    /\ d.laser_power \in 0..100
    /\ d.laser_power_default \in 0..100
    /\ d.speed_position > 0
    /\ d.speed_print > 0
    /\ d.fill_stepover > 0

\* The value of a setter call is one C8 calls invalid.
C8_Invalid(call) ==
    CASE call.op = "laser_on" -> call.s \notin {"M3", "M4", "m3", "m4"}
      [] call.op \in {"laser_power", "laser_power_default"} -> call.n \notin 0..100
      [] call.op \in {"speed_position", "speed_print", "fill_stepover"} -> call.n <= 0
      [] OTHER -> FALSE

\* C8: the document's machine state is valid at construction and after every
\* setter call and Doc.GCode() call; a setter call with an invalid value
\* raises, and a setter call that raises leaves the document as it was.
C8_DocStateValid ==
    /\ C8_DocValid(doc)
    /\ [][/\ C8_DocValid(doc')
          /\ lastOp'.op \notin {"GCode", "AddChild"}
                => /\ C8_Invalid(lastOp') => err'
                   /\ err' => doc' = doc]_vars

\* C8's case: after valid assignments and a generation, an assignment of a
\* laser power out of range.
C8_Witness ==
    /\ lastOp.op = "laser_power"
    /\ lastOp.n = 101
    /\ err
    /\ doc.laser_on = "M3"
    /\ doc.laser_power = 30
    /\ Len(doc.code) > 0

-----------------------------------------------------------------------------
(* Properties of the document's layout, checked under SpecLayout *)

\* The document's layout is one of the Layout objects and the document is
\* its parent.
C9_LayoutAttached ==
    /\ doc.layout \in 1..Len(layouts)
    /\ layouts[doc.layout].parent = Some("doc")

\* C9: from construction on and after every Doc.layout assignment the
\* document has a Layout attached whose parent it is; assigning something
\* that is not a Layout raises and keeps the attached layout and its
\* children.
C9_OneRootLayout ==
    /\ C9_LayoutAttached
    /\ [][/\ C9_LayoutAttached'
          /\ (lastOp'.op = "layout" /\ lastOp'.s = "not a Layout")
                => /\ err'
                   /\ doc'.layout = doc.layout
                   /\ layouts' = layouts]_vars

\* C9's case: something that is not a Layout was assigned to a document
\* whose layout, the second one attached, has children.
C9_Witness ==
    /\ lastOp.op = "layout"
    /\ lastOp.s = "not a Layout"
    /\ err
    /\ doc.layout = 2
    /\ Len(layouts[doc.layout].children) > 0

-----------------------------------------------------------------------------
(* Properties of a Circle, checked under SpecCircle *)

\* C11: the Circle(x=0, y=0, radius=5) a constructor call has just returned,
\* no start point set on it, has its start point at the top of the circle,
\* (0,5), and its G-code line is the arc move to (0,5) with I,J = (0,-5).
C11_DefaultStartAtTop ==
    (/\ ~IsNone(shape)
     /\ lastOp.op = "Circle" /\ ~err
     /\ Val(shape).x = 0 /\ Val(shape).y = 0 /\ Val(shape).radius = 50)
        => /\ Points(Val(shape)).pts = <<Pt(0, 50)>>
           /\ Circle_gcode(Val(shape)) =
                 MkLine("G2", "", <<Fmt3(0), Fmt3(50), Fmt3(0), Fmt3(-50)>>)

\* C12: whatever centre assignments, radius assignments and startpoint_set
\* calls a Circle has seen, its points are one point S, a pair of numbers at
\* distance radius from the current centre, and its G-code line is the
\* clockwise arc G2 to S with I,J = centre - S.
C12_StartOnCircleArcToStart ==
    (~IsNone(shape) /\ Val(shape).kind = "Circle")
        => LET s == Val(shape)
               pts == Points(s).pts
           IN  /\ Len(pts) = 1
               /\ ~s.start_nan
               /\ Dist2(pts[1], Pt(s.x, s.y)) = s.radius * s.radius
               /\ Circle_gcode(s) =
                     MkLine("G2", "", <<Fmt3(pts[1][1]), Fmt3(pts[1][2]),
                                        Fmt3(s.x - pts[1][1]),
                                        Fmt3(s.y - pts[1][2])>>)

-----------------------------------------------------------------------------
(* Properties of startpoint_set, checked under SpecShape *)

\* C13: a startpoint_set call that repeats the call made just before it,
\* with the same reference point, leaves the points of the shape (Line,
\* Rectangle or Circle), their order and their coordinates as the first
\* call left them.
C13_StartpointSetIdempotent ==
    [][(lastOp'.op = "startpoint_set" /\ lastOp'.s = "again")
          => /\ Points(Val(shape')).pts = Points(Val(shape)).pts
             /\ Val(shape').start_nan = Val(shape).start_nan]_vars

\* C13's case: startpoint_set was called twice in a row with the reference
\* point (10,10) on a Rectangle whose point list the call rolls.
C13_Witness ==
    /\ ~IsNone(shape)
    /\ Val(shape).kind = "Rectangle"
    /\ lastOp.op = "startpoint_set"
    /\ lastOp.s = "again"
    /\ lastOp.n = 100
    /\ ~IsNone(Val(shape).points)
    /\ Val(Val(shape).points) # Val(Rectangle_points_gen(Val(shape)).points)

-----------------------------------------------------------------------------
(* Properties of the nearest-neighbour layout, checked under SpecOptimizer *)

\* The children in the insertion order p: the i-th inserted is children[p[i]].
C14_Inserted(children, p) == [i \in 1..Len(children) |-> children[p[i]]]

\* The order in which Layout2dOptimizer.GCode emits `children`, as indices.
C14_Order(children) ==
    Layout2dOptimizer_GCode(doc, children, [i \in 1..Len(children) |-> i],
                            [nan |-> FALSE, p |-> Pt(0, 0)]).order

\* Two distances are equal; a distance that is not a number equals nothing.
C14_Tie(p, q) == DistLeq(p, q) /\ DistLeq(q, p)

\* No two of the children still to emit are at equal distance from the
\* current position, at any step of the generation of `children`.
RECURSIVE C14_NoTies(_, _, _)
C14_NoTies(children, left, xy) ==
    IF Len(left) <= 1 THEN TRUE
    ELSE LET k == ArgMinChild(children, left, xy)
             next == StartpointSetAt(children[left[k]], xy)
         IN  /\ xy.nan \/ \A i, j \in 1..Len(left) :
                    i # j => ~C14_Tie(Distance(children[left[i]], xy.p),
                                      Distance(children[left[j]], xy.p))
             /\ C14_NoTies([children EXCEPT ![left[k]] = next], Pop(left, k),
                           PositionAfter(next))

\* C14: when no two candidates are ever at equal distance from the current
\* position, the nearest-neighbour layout emits the children in the same
\* order for every order in which they were inserted.
C14_OrderIndependentOfInsertion ==
    (/\ layouts[doc.layout].kind = "Layout2dOptimizer"
     /\ Len(Children) > 1
     /\ C14_NoTies(Children, [i \in 1..Len(Children) |-> i],
                   [nan |-> FALSE, p |-> Pt(0, 0)]))
        => \A p \in Permutations(1..Len(Children)) :
              C14_NoTies(C14_Inserted(Children, p), [i \in 1..Len(Children) |-> i],
                         [nan |-> FALSE, p |-> Pt(0, 0)])
              => [k \in 1..Len(Children) |->
                      p[C14_Order(C14_Inserted(Children, p))[k]]]
                 = C14_Order(Children)

-----------------------------------------------------------------------------
(* Properties of fill synthesis, checked under SpecFill *)

\* The child an AddChild step hands over: the one appended first.
C15_Added == Children'[Len(Children) + 1]

\* The step is a doc.AddChild(r) of a filled Rectangle r.
C15_AddsFilledRectangle ==
    /\ lastOp'.op = "AddChild"
    /\ Len(Children') > Len(Children)
    /\ C15_Added.kind = "Rectangle"
    /\ C15_Added.is_filled

\* The children after the step are those before it, the rectangle, and then
\* n Lines of the given length and nothing else.
C15_Registers(n, length) ==
    /\ Len(Children') = Len(Children) + 1 + n
    /\ SubSeq(Children', 1, Len(Children)) = Children
    /\ \A i \in (Len(Children) + 2)..Len(Children') :
          /\ Children'[i].kind = "Line"
          /\ Children'[i].length = length

\* C15 as stated: adding a filled Rectangle of width w and height h to a
\* document of fill stepover s registers, right after the rectangle,
\* exactly round((h-s)/s) Lines, each of length w - 2s.
C15_FillLineCountAndLength ==
    [][C15_AddsFilledRectangle
          => C15_Registers(RoundHalfEven(C15_Added.height - doc.fill_stepover,
                                         doc.fill_stepover),
                           C15_Added.width - 2 * doc.fill_stepover)]_vars

\* round((h-s)/s) of the rectangle added, to the nearest integer and to the
\* even one from a half.
C15_Round ==
    RoundHalfEven(C15_Added.height - doc.fill_stepover, doc.fill_stepover)

\* C15, amended: for w > 2s the call returns and registers, right after the
\* rectangle, round((h-s)/s) Lines of length w - 2s if that number is
\* positive and none otherwise; for w <= 2s the call registers no Line, and
\* raises if round((h-s)/s) is positive.
C15_FillLinesWhenWiderThanTwoStepovers ==
    [][C15_AddsFilledRectangle
          => IF C15_Added.width > 2 * doc.fill_stepover
             THEN /\ ~err'
                  /\ C15_Registers(IF C15_Round > 0 THEN C15_Round ELSE 0,
                                   C15_Added.width - 2 * doc.fill_stepover)
             ELSE /\ err' <=> C15_Round > 0
                  /\ C15_Registers(0, 0)]_vars

\* C15's case: a filled Rectangle was just added, after a line, and fill
\* lines were registered behind it.
C15_Witness ==
    /\ lastOp.op = "AddChild"
    /\ ~err
    /\ Len(Children) > 4
    /\ Children[1].kind = "Line"
    /\ Children[2].kind = "Rectangle"
    /\ Children[2].is_filled
    /\ Children[3].kind = "Line"
    /\ Children[3].header = Some(<<"Rectangle Fill">>)

-----------------------------------------------------------------------------
(* Properties of the grid layout, checked under SpecLayout *)

\* The calls of C16's scenario on a rectangle: a 1 by 1 grid, its cell
\* padding set to (1,1), the rectangle added through AddChildCell, Size().
C16_Scenario(rect) ==
    Then(GridLayout_init(1, 1), LAMBDA g :
    Then(GridLayout_AddChildCell([g EXCEPT !.cell_padding_width = 10,
                                           !.cell_padding_height = 10],
                                 rect, 0, 0), LAMBDA h :
    Ok(GridLayout_Size(h))))

\* C16: once GridLayout(1, 1) has been called, the grid exists, and with
\* cell padding (1,1) and one 10 by 10 Rectangle added through AddChildCell
\* its Size() is the rectangle's size plus twice the padding, (12, 12).
C16_OneCellGridSize ==
    (lastOp.op = "GridLayout" /\ lastOp.n = 1)
        => /\ ~err
           /\ C16_Scenario(PlainRectangle).ok
           /\ C16_Scenario(PlainRectangle).obj = <<120, 120>>

-----------------------------------------------------------------------------
(* Properties of the document's own lines, checked under Spec and SpecText *)

\* The positions in a buffer of the lines of kind op.
C17_At(code, op) == {i \in 1..Len(code) : code[i].op = op}

\* The positions in a buffer of the lines of the children: their
\* identifying comments, moves and laser lines, and their header and footer
\* comments.
C17_ChildLines(code) ==
    {i \in 1..Len(code) :
        \/ code[i].op \in {"shapeid", "G0", "G1", "G2", "laser_on", "laser_off"}
        \/ \E k \in 1..Len(Children) :
              Some(<<code[i].txt>>) \in {Children[k].header, Children[k].footer}}

\* C17: in the buffer of a Doc.GCode() that returned, with job control
\* there is one G90 line, after it one G21 line, both before every line of
\* a child, and one M2 line after every line of a child; without job control
\* there is no G90, G21 or M2 line.
C17_JobControlLines ==
    Generated =>
        IF doc.job_control
        THEN \E a, u, m \in 1..Len(doc.code) :
                /\ C17_At(doc.code, "G90") = {a}
                /\ C17_At(doc.code, "G21") = {u}
                /\ C17_At(doc.code, "M2") = {m}
                /\ a < u
                /\ \A i \in C17_ChildLines(doc.code) : u < i /\ i < m
        ELSE C17_At(doc.code, "G90") \cup C17_At(doc.code, "G21")
                \cup C17_At(doc.code, "M2") = {}

\* C17's case: a generation with job control that emitted a Line with
\* header and footer and one more shape.
C17_Witness ==
    /\ Generated
    /\ doc.job_control
    /\ Len(emitted) = 2
    /\ \E k \in 1..2 : Children[k] = TunedLine
    /\ Cardinality(C17_ChildLines(doc.code)) > 12

\* C18: every line of the buffer of a Doc.GCode() that returned is blank, a
\* command (with or without a comment behind it) or one parenthesized
\* comment: no line opens a comment without closing it, closes one without
\* opening it, or is bare text, whatever header and footer texts are set.
C18_CommandOrCommentLines ==
    Generated =>
        \A i \in 1..Len(doc.code) :
            doc.code[i].op \in {"blank", "comment", "shapeid", "G90", "G21", "M2",
                                "G0", "G1", "G2", "laser_on", "laser_off"}

-----------------------------------------------------------------------------
(* Properties of saving, checked under SpecSave *)

\* C19: a Doc.Save that finds the buffer empty and returns has made one
\* Doc.GCode() call, leaves in the buffer what Doc.GCode() produces for the
\* document as Save found it, and has written exactly that to the file; a
\* Doc.GCode(filename) comes to an end after at most three method calls
\* (GCode, Save and, for a generated buffer that is empty, one GCode more),
\* and if it returns the file holds the buffer.
C19_SaveGeneratesFirst ==
    [][/\ (lastOp'.op = "Save" /\ Len(doc.code) = 0 /\ ~err')
            => /\ doc'.code = Doc_GCode(layouts, doc).doc.code
               /\ file' = Some(doc'.code)
               /\ lastOp'.n = 2
       /\ lastOp'.op = "GCode(filename)"
            => /\ lastOp'.n \in 1..3
               /\ ~err' => /\ file' = Some(doc'.code)
                           /\ doc'.code = Doc_GCode(layouts, doc).doc.code
                           /\ lastOp'.n = (IF Len(doc'.code) = 0 THEN 3 ELSE 2)]_vars

\* C19's case: Save found the buffer of a document with a child empty,
\* generated and wrote the file.
C19_Witness ==
    /\ lastOp.op = "Save"
    /\ lastOp.s = "empty buffer"
    /\ ~err
    /\ Len(Children) > 0
    /\ Len(doc.code) > 0
    /\ file = Some(doc.code)


-----------------------------------------------------------------------------
(* Gerber conversion, checked under SpecGerber *)

\* The number of primitives in the loaded file.
C20_Primitives ==
    SumSeq([i \in 1..Len(Val(gerber)) |-> Len(Val(gerber)[i])])

\* C20: after to_gcode on a loaded Gerber file, every primitive of the file
\* has either contributed a shape to the generated document, so that a
\* conversion that returned holds as many shapes as the file has
\* primitives, or made the conversion raise, so that a conversion that
\* raised did so at a primitive: none is skipped silently.
C20_NoPrimitiveSkipped ==
    (lastOp.op = "to_gcode" /\ ~IsNone(gerber) /\ C20_Primitives > 0) =>
        IF err THEN lastOp.s = "primitive"
        ELSE lastOp.n = C20_Primitives


-----------------------------------------------------------------------------
(* PolyLine, checked under SpecShape *)

\* C21: a PolyLine constructed from an n-by-2 point array exists and holds
\* exactly those n points in the given order.
C21_PolyLineHoldsPoints ==
    (lastOp.op = "PolyLine" /\ lastOp.s = "n-by-2") =>
        /\ ~err
        /\ ~IsNone(shape)
        /\ Val(shape).kind = "PolyLine"
        /\ Val(shape).points = Some(PolyLinePoints(lastOp.n).rows)


-----------------------------------------------------------------------------
(* The device's maximum laser power, checked under SpecDoc *)

\* C22: the document's device maximum laser power is strictly positive at
\* construction and after every call, and an assignment of a value that is
\* not positive raises and leaves the value as it was.
C22_DeviceLaserMaxPositive ==
    /\ doc.device_laser_max > 0
    /\ [][/\ doc'.device_laser_max > 0
          /\ (lastOp'.op = "device_laser_max" /\ lastOp'.n <= 0)
                => /\ err'
                   /\ doc'.device_laser_max = doc.device_laser_max]_vars


-----------------------------------------------------------------------------
(* The nearest-neighbour order, checked under SpecOptimizer *)

\* The current position before the t-th emission: the origin, then the first
\* point of the child emitted just before if it is closed and its last point
\* if it is open.  The start point of a Circle may be not a number.
C23_Position(t) ==
    IF t = 1 THEN [nan |-> FALSE, p |-> Pt(0, 0)]
    ELSE LET s == Children[emitted[t - 1]]
             pts == Points(s).pts
         IN  [nan |-> s.kind = "Circle" /\ s.start_nan,
              p |-> IF s.is_closed THEN pts[1] ELSE pts[Len(pts)]]

\* Child i's distance() to xy is at most that of every other child in
\* `left`; a distance to a position that is not a number is not a number
\* and compares with nothing.
C23_Minimal(i, left, xy) ==
    \A j \in left \ {i} :
        /\ ~xy.nan
        /\ DistLeq(Distance(Children[i], xy.p), Distance(Children[j], xy.p))

\* C23: a generation by the nearest-neighbour layout that returned emitted
\* every child exactly once, and its t-th emission is the first-listed of
\* the children not emitted before whose distance() to the current position
\* is minimal, the position starting at (0,0) and moving to the emitted
\* child's first point if it is closed and its last point if it is open.
C23_NearestNeighbourOrder ==
    (Generated /\ layouts[doc.layout].kind = "Layout2dOptimizer") =>
        /\ Len(emitted) = Len(Children)
        /\ \A i \in 1..Len(Children) :
              Cardinality({t \in 1..Len(emitted) : emitted[t] = i}) = 1
        /\ \A t \in 1..Len(emitted) :
              LET left == (1..Len(Children)) \ {emitted[u] : u \in 1..(t - 1)}
              IN  /\ C23_Minimal(emitted[t], left, C23_Position(t))
                  /\ \A j \in left :
                        j < emitted[t] => ~C23_Minimal(j, left, C23_Position(t))


-----------------------------------------------------------------------------
(* startpoint_set on shapes given by points, checked under SpecShape *)

\* The reference point of the startpoint_set call just made: the reference
\* points of SpecShape lie on the diagonal and are recorded by their x.
C24_Ref == Pt(lastOp'.n, lastOp'.n)

\* b is a cyclic rotation of a.
C24_IsRotation(a, b) == \E k \in 0..(Len(a) - 1) : b = Roll(a, k)

\* p is one of pts and no point of pts is nearer to xy.
C24_Nearest(pts, p, xy) ==
    /\ \E i \in 1..Len(pts) : pts[i] = p
    /\ \A j \in 1..Len(pts) : Dist2(p, xy) <= Dist2(pts[j], xy)

\* The travel move that begins the emission of shape s.
C24_EmissionStart(s) ==
    SelectSeq(Shape_GCode(doc, s).doc.code,
              LAMBDA l : l.op = "G0" /\ l.txt = "")[1]

\* C24 for a step on a shape of the kinds listed: after startpoint_set(ref) the points of a
\* Rectangle or Polygon are a cyclic rotation of the points before, those of
\* a Line the same two end points; the first point is one nearest to ref,
\* and emission begins there.
C24_Holds(kinds) ==
       (/\ lastOp'.op = "startpoint_set"
        /\ ~IsNone(shape)
        /\ Val(shape).kind \in kinds)
          => LET before == Points(Val(shape)).pts
                 after == Points(Val(shape')).pts
             IN  /\ IF Val(shape).kind = "Line"
                    THEN {after[1], after[2]} = {before[1], before[2]}
                    ELSE C24_IsRotation(before, after)
                 /\ C24_Nearest(before, after[1], C24_Ref)
                 /\ C24_EmissionStart(Val(shape'))
                      = MkLine("G0", "", <<Fmt3(after[1][1]), Fmt3(after[1][2]),
                                           Fmt1(doc.speed_position)>>)

\* C24: startpoint_set on a Rectangle, a Polygon or a Line.
C24_StartpointNearest == [][C24_Holds({"Rectangle", "Polygon", "Line"})]_vars


-----------------------------------------------------------------------------
(* startpoint_set on a Circle, checked under SpecCircle *)

\* The reference point of the startpoint_set call just made: the reference
\* points of SpecCircle lie on the line 3 y = 4 x and are recorded by their x.
C25_Ref == Pt(lastOp'.n, (4 * lastOp'.n) \div 3)

\* p is the point of the circle around c with radius r on the ray from c
\* towards xy: at distance r from c, and p - c a positive multiple of xy - c.
C25_OnRay(p, c, r, xy) ==
    /\ Dist2(p, c) = r * r
    /\ (p[1] - c[1]) * (xy[2] - c[2]) = (p[2] - c[2]) * (xy[1] - c[1])
    /\ (p[1] - c[1]) * (xy[1] - c[1]) + (p[2] - c[2]) * (xy[2] - c[2]) > 0

\* C25: after startpoint_set(ref) on a Circle its start point is a pair of
\* numbers, the point of the perimeter on the ray from the centre towards
\* ref, which is the perimeter point nearest to ref.
C25_CircleStartNearest ==
    [][(/\ lastOp'.op = "startpoint_set"
        /\ ~IsNone(shape)
        /\ Val(shape).kind = "Circle")
          => LET s == Val(shape')
             IN  /\ ~s.start_nan
                 /\ C25_OnRay(Points(s).pts[1], Pt(s.x, s.y), s.radius, C25_Ref)]_vars


-----------------------------------------------------------------------------
(* The travelling-salesman order, checked under SpecSalesman *)

\* The squared distance between the (x, y) of children i and j.
C26_Weight(i, j) ==
    Dist2(Pt(Children[i].x, Children[i].y), Pt(Children[j].x, Children[j].y))

\* The emission order C26 describes: every child once; the first the
\* first-inserted child of least distance() to the origin; each following
\* one a child not emitted before whose centre is nearest to the centre of
\* the child emitted just before.
C26_TourOrder ==
    /\ Len(emitted) = Len(Children)
    /\ \A i \in 1..Len(Children) :
          Cardinality({t \in 1..Len(emitted) : emitted[t] = i}) = 1
    /\ \A j \in 1..Len(Children) :
          /\ DistLeq(Distance(Children[emitted[1]], Pt(0, 0)),
                     Distance(Children[j], Pt(0, 0)))
          /\ j < emitted[1] => ~DistLeq(Distance(Children[j], Pt(0, 0)),
                                        Distance(Children[emitted[1]], Pt(0, 0)))
    /\ \A t \in 2..Len(emitted) :
          \A j \in (1..Len(Children)) \ {emitted[u] : u \in 1..(t - 1)} :
              C26_Weight(emitted[t - 1], emitted[t]) <= C26_Weight(emitted[t - 1], j)

\* C26: Doc.GCode() on a document with the travelling-salesman layout
\* returns for any number of children and emits them in the order above.
C26_SalesmanEmitsEveryChild ==
    (lastOp.op = "GCode" /\ layouts[doc.layout].kind = "LayoutTravelingSalesment")
        => (~err /\ (Len(Children) > 0 => C26_TourOrder))


-----------------------------------------------------------------------------
(* Rectangle primitives in the Gerber conversion, checked under SpecGerber *)

\* The quarter turns nearest to an angle given in tenths of a radian.
C27_QuarterTurns(rotation) == (rotation * 10 + 78) \div 157

\* Shape s is the Rectangle that primitive prim describes: same centre,
\* width, height and rotation.
C27_Same(s, prim) ==
    /\ s.kind = "Rectangle"
    /\ s.x = prim.x /\ s.y = prim.y
    /\ s.width = prim.w /\ s.height = prim.h
    /\ s.rotation = C27_QuarterTurns(prim.rotation)

\* C27: to_gcode on a loaded file whose objects are single rectangle
\* primitives returns, and the document it generated holds for each of them,
\* in order, a Rectangle of the primitive's centre, width, height and
\* rotation.
C27_RectangleKept ==
    (/\ lastOp.op = "to_gcode"
     /\ ~IsNone(gerber)
     /\ Len(Val(gerber)) > 0
     /\ \A i \in 1..Len(Val(gerber)) :
           Len(Val(gerber)[i]) = 1 /\ Val(gerber)[i][1].kind = "Rectangle")
        => /\ ~err
           /\ \E r \in {Gerber2Gcode_to_gcode(gerber, None)} :
                 /\ r.ok
                 /\ Len(r.layouts[r.doc.layout].children) = Len(Val(gerber))
                 /\ \A i \in 1..Len(Val(gerber)) :
                       C27_Same(r.layouts[r.doc.layout].children[i], Val(gerber)[i][1])


-----------------------------------------------------------------------------
(* The depth of fill lines, checked under SpecFill *)

\* The child an AddChild step appended first: the shape handed over.
C28_Filled == Children'[Len(Children) + 1]

\* C28: when a filled Rectangle or Circle is added, every fill Line
\* registered behind it has the z of the shape being filled, and with it the
\* Z move that Shape.GCode emits for the line.
C28_FillLinesAtParentDepth ==
    [][(/\ lastOp'.op = "AddChild"
        /\ Len(Children') > Len(Children)
        /\ C28_Filled.is_filled
        /\ C28_Filled.kind \in {"Rectangle", "Circle"})
          => \A i \in (Len(Children) + 2)..Len(Children') :
                /\ Children'[i].kind = "Line"
                /\ Children'[i].z = C28_Filled.z]_vars

-----------------------------------------------------------------------------
(* The cached points of a Rectangle, checked under SpecShape *)

\* The four corners computed afresh from the centre, width, height and
\* rotation that s has now.
C29_Corners(s) == Val(Rectangle_points_gen(s).points)

\* C29: whatever assignments to x, y, width, height and rotation and reads
\* of points were made, the points a Rectangle returns are the four corners
\* of its current centre, width, height and rotation, in the same loop order
\* up to the corner that startpoint_set moved to the front.
C29_PointsFollowFields ==
    (~IsNone(shape) /\ Val(shape).kind = "Rectangle")
        => \E k \in 0..3 :
              Points(Val(shape)).pts = Roll(C29_Corners(Val(shape)), k)

-----------------------------------------------------------------------------
(* Adding a child that raises, checked under SpecFill *)

\* C30: adding a child is all-or-nothing: whenever Doc.AddChild raises, the
\* children of every layout are exactly what they were before the call.
C30_AddChildAllOrNothing ==
    [][(lastOp'.op = "AddChild" /\ err')
          => \A li \in 1..Len(layouts) :
                layouts'[li].children = layouts[li].children]_vars

=============================================================================
